---- MODULE Spec2Model ----
(***************************************************************************)
(* Model of the spa_anim2D add-on:                                         *)
(*   - animation/core.py : grease-pencil keyframe shifting and the         *)
(*     computation of the keyframes to duplicate,                          *)
(*   - animation/ops.py : the keyframes shift operator and the duration of *)
(*     the current keyframe,                                               *)
(*   - materials/core.py : the material palettes registry, its refresh,    *)
(*     the cleanup of duplicated materials and the palette property of a   *)
(*     grease-pencil datablock,                                            *)
(*   - layout/core.py : the depth of an object from the active camera.     *)
(* The host objects (layers, keyframes, materials, datablocks) are the     *)
(* state; every function of the add-on is an operator computed the way the *)
(* code computes it, and every entry point is an action.                   *)
(***************************************************************************)
EXTENDS Integers, Sequences, FiniteSets, TLC

VARIABLES
    layers,     \* gp.layers: sequence of [lock, select, frames]; frames is the
                \* host's list of frame numbers, a keyframe is <<layer, index>>
    active,     \* gp.layers.active: index of the active layer, 0 when None
    pc,         \* "idle": no call pending; "done": a call has returned
    last,       \* the last call: its arguments, the layers before it, its result
    frame_current,  \* context.scene.frame_current
    op,         \* the TRANSFORM_OT_keyframes_shift instance: its properties and
                \* attributes, the layers when it was invoked, what it returned
    materials,          \* bpy.data.materials: name -> material datablock
    grease_pencils,     \* bpy.data.grease_pencils: sequence of datablocks
    material_palettes,  \* the global material palettes registry
    data_ready,         \* isinstance(bpy.data, bpy.types.BlendData)
    mphase,             \* "idle", or the step of a file load in progress
    mlast,              \* the last refresh or handler run, the data before it
    obj,                \* the object the layout functions are given
    scene_camera,       \* bpy.context.scene.camera: its matrix_world, or None
    lpc,                \* "idle" or "done": a layout function was called
    llast,              \* the last layout call: arguments, object before, result
    context,            \* the drawing with its pegbar, and the scene
    plast,              \* the last peg operator: properties, data before, result
    flip,               \* the drawing and the scene of the flip operator
    flast,              \* the last flip: direction, frame before, result
    undo,               \* preference, object mode, frame and last edit frame
    ulast               \* the last handler call: the data it was called on

animVars == <<layers, active, pc, last>>
opVars == <<frame_current, op>>
matVars ==
    <<materials, grease_pencils, material_palettes, data_ready, mphase, mlast>>
layVars == <<obj, scene_camera, lpc, llast>>
pegVars == <<context, plast>>
flipVars == <<flip, flast>>
undoVars == <<undo, ulast>>
extVars == <<pegVars, flipVars, undoVars>>
vars == <<animVars, opVars, matVars, layVars, extVars>>

----------------------------------------------------------------------------
(* Bounds of the animation model *)

\* The datablock of the tests: the layer of the fixture and its duplicate
NumLayers == 2
MaxFrame == 2
MaxKeys == 2
MaxOffset == 1
\* gp_compute_list_of_frames_to_duplicate: frame numbers and keys of the layer
DupMaxFrame == 4
DupMaxKeys == 3

(* Bounds of the materials model *)

\* Materials in a file
MaxMat == 3
\* Material slots of a datablock in a file: cleanup model, palettes model
MaxSlots == 2
PalMaxSlots == 1
(* Bounds of the layout model *)

\* Coordinates of the object: -MaxCoord..MaxCoord
MaxCoord == 1
\* Depths asked for: -1..MaxDepth
MaxDepth == 3

\* The pegs of a pegbar, and the layers of its drawing
MaxPegs == 2
NumPegLayers == 2

\* The frames and the keyframes of a layer of the flip operator
FlipMaxFrame == 3
FlipMaxKeys == 2

\* The frames of the scene of the undo handler
UndoMaxFrame == 2

\* The frames of the scene, and the keyframes of the layer and of the action,
\* of the bake operator
BakeMaxFrame == 3
BakeMaxKeys == 2

\* The tests create one grease-pencil datablock
NumGP == 1
\* test_palette_refresh_several_objects creates two
NumObjects == 2
\* Material slots of a datablock in the palette assignment model
AssignMaxSlots == 2

\* sys.maxsize, the default frame_max of get_gp_keyframes (32-bit here)
sys_maxsize == 2147483647

LayerIds == 1..NumLayers
FrameNumbers == 0..MaxFrame
Offsets == (0 - MaxOffset)..MaxOffset

----------------------------------------------------------------------------
(* Generic helpers *)

Range(s) == {s[i] : i \in 1..Len(s)}

\* The elements of the set T in ascending order
RECURSIVE SortedSeq(_)
SortedSeq(T) ==
    IF T = {} THEN <<>>
    ELSE LET m == CHOOSE x \in T : \A y \in T : x <= y
         IN  <<m>> \o SortedSeq(T \ {m})

\* The ascending sequences over S of length at most n
AscendingSeqs(S, n) ==
    {SortedSeq(T) : T \in {U \in SUBSET S : Cardinality(U) <= n}}

RECURSIVE Concat(_)
Concat(ss) == IF ss = <<>> THEN <<>> ELSE Head(ss) \o Concat(Tail(ss))

\* Python's sorted(seq, key=...): a stable sort
SortedBy(seq, key(_)) ==
    LET n == Len(seq)
        rank(j) == Cardinality({k \in 1..n :
                       \/ key(seq[k]) < key(seq[j])
                       \/ (key(seq[k]) = key(seq[j]) /\ k < j)}) + 1
    IN  [i \in 1..n |-> seq[CHOOSE j \in 1..n : rank(j) = i]]

SeqMin(s) == CHOOSE x \in Range(s) : \A y \in Range(s) : x <= y

Max(a, b) == IF a >= b THEN a ELSE b

Min(a, b) == IF a <= b THEN a ELSE b

----------------------------------------------------------------------------
(* animation/core.py *)

\* frame_number of the keyframe kf = <<layer, index>> in the layers ls
frame_number(ls, kf) == ls[kf[1]].frames[kf[2]]

layer_options_to_traits(act, unlocked, selected) ==
    (IF act THEN {"ACTIVE"} ELSE {})
        \cup (IF unlocked THEN {"UNLOCKED"} ELSE {})
        \cup (IF selected THEN {"SELECTED"} ELSE {})

\* (mutant) the UNLOCKED trait is not tested
get_gp_layers_NoLock(gp, layer_filter) ==
    SelectSeq([i \in 1..Len(gp.layers) |-> i],
              LAMBDA l :
                  /\ ("ACTIVE" \notin layer_filter \/ l = gp.active)
                  /\ ("SELECTED" \notin layer_filter \/ gp.layers[l].select))

\* The indexes of the layers matching layer_filter, in gp.layers order
get_gp_layers(gp, layer_filter) ==
    SelectSeq([i \in 1..Len(gp.layers) |-> i],
              LAMBDA l :
                  /\ ("ACTIVE" \notin layer_filter \/ l = gp.active)
                  /\ ("UNLOCKED" \notin layer_filter \/ ~gp.layers[l].lock)
                  /\ ("SELECTED" \notin layer_filter \/ gp.layers[l].select))

\* The keyframes of the matching layers within [frame_min, frame_max], sorted
\* by ascending frame number (frame_filter is FrameTraits.NONE in every call
\* of the add-on modelled here)
get_gp_keyframes(gp, layer_filter, frame_min, frame_max) ==
    LET ls == get_gp_layers(gp, layer_filter)
        ofLayer(l) ==
            SelectSeq([k \in 1..Len(gp.layers[l].frames) |-> <<l, k>>],
                      LAMBDA kf : /\ frame_min <= frame_number(gp.layers, kf)
                                  /\ frame_number(gp.layers, kf) <= frame_max)
        keyframes == Concat([i \in 1..Len(ls) |-> ofLayer(ls[i])])
    IN  SortedBy(keyframes, LAMBDA kf : frame_number(gp.layers, kf))

\* keyframe.frame_number += offset for every keyframe of keyframes
OffsetKeyframes(ls, keyframes, offset) ==
    [l \in 1..Len(ls) |->
        [ls[l] EXCEPT !.frames =
            [k \in 1..Len(ls[l].frames) |->
                IF <<l, k>> \in Range(keyframes)
                THEN ls[l].frames[k] + offset
                ELSE ls[l].frames[k]]]]

\* (mutant) the minimum frame value is not looked at
shift_keyframes_Unconstrained(ls, keyframes, offset, frame_min, adjust_offset) ==
    IF offset = 0
    THEN [res |-> FALSE, layers |-> ls]
    ELSE [res |-> TRUE, layers |-> OffsetKeyframes(ls, keyframes, offset)]

\* (mutant) shifts the keyframes that can move and leaves the others
shift_keyframes_Partial(ls, keyframes, offset, frame_min, adjust_offset) ==
    LET movable == SelectSeq(keyframes,
                       LAMBDA kf : frame_number(ls, kf) + offset >= frame_min)
    IN  IF offset = 0 \/ movable = <<>>
        THEN [res |-> FALSE, layers |-> ls]
        ELSE [res |-> TRUE, layers |-> OffsetKeyframes(ls, movable, offset)]

\* Shift keyframes by offset with frame_min as a minimum frame value:
\* returns whether keyframes were shifted, and the layers afterwards
shift_keyframes(ls, keyframes, offset, frame_min, adjust_offset) ==
    LET nums == [i \in 1..Len(keyframes) |-> frame_number(ls, keyframes[i])]
        min_value == SeqMin(nums)
        off == IF min_value + offset < frame_min /\ adjust_offset
               THEN frame_min - min_value
               ELSE offset
    IN  IF min_value < frame_min
        THEN [res |-> FALSE, layers |-> ls]
        ELSE IF min_value + offset < frame_min /\ ~adjust_offset
        THEN [res |-> FALSE, layers |-> ls]
        ELSE IF off = 0
        THEN [res |-> FALSE, layers |-> ls]
        ELSE [res |-> TRUE, layers |-> OffsetKeyframes(ls, keyframes, off)]

\* (mutant) the keyframes are taken from frame_start, not after it
shift_gp_keyframes_FromFrameStart(gp, frame_start, offset, adjust_offset, only_active_layer, only_unlocked_layers, only_selected_layers) ==
    LET keyframes ==
            get_gp_keyframes(gp,
                layer_options_to_traits(only_active_layer, only_unlocked_layers,
                                        only_selected_layers),
                frame_start, sys_maxsize)
        r == shift_keyframes(gp.layers, keyframes, offset, frame_start,
                             adjust_offset)
    IN  IF keyframes = <<>>
        THEN [ret |-> <<>>, layers |-> gp.layers]
        ELSE [ret |-> IF r.res THEN keyframes ELSE <<>>, layers |-> r.layers]

\* Returns the keyframes moved, and the layers afterwards
shift_gp_keyframes(gp, frame_start, offset, adjust_offset, only_active_layer, only_unlocked_layers, only_selected_layers) ==
    LET keyframes ==
            get_gp_keyframes(gp,
                layer_options_to_traits(only_active_layer, only_unlocked_layers,
                                        only_selected_layers),
                frame_start + 1, sys_maxsize)
        r == shift_keyframes(gp.layers, keyframes, offset, frame_start + 1,
                             adjust_offset)
    IN  IF keyframes = <<>>
        THEN [ret |-> <<>>, layers |-> gp.layers]
        ELSE [ret |-> IF r.res THEN keyframes ELSE <<>>, layers |-> r.layers]

\* The first loop of gp_compute_list_of_frames_to_duplicate: the index (from 1)
\* of the first target not before the first key; 0 when frame_numbers[i] is
\* read past the end of the list (IndexError)
RECURSIVE SkipTargetsBeforeFirstKey(_, _, _)
SkipTargetsBeforeFirstKey(frames, frame_numbers, i) ==
    IF i > Len(frame_numbers) THEN 0
    ELSE IF frame_numbers[i] < frames[1]
         THEN SkipTargetsBeforeFirstKey(frames, frame_numbers, i + 1)
         ELSE i

\* The second loop: i over the targets, j over the keys of the layer
RECURSIVE DuplicateLoop(_, _, _, _, _)
DuplicateLoop(frames, frame_numbers, i, j, new_frames_list) ==
    IF i > Len(frame_numbers) THEN new_frames_list
    ELSE LET target == frame_numbers[i]
             current_key == frames[j]
         IN  IF target = current_key
             THEN DuplicateLoop(frames, frame_numbers, i + 1, j, new_frames_list)
             ELSE IF j + 1 <= Len(frames)
             THEN IF target < frames[j + 1]
                  THEN DuplicateLoop(frames, frame_numbers, i + 1, j,
                                     Append(new_frames_list, <<j, target>>))
                  ELSE DuplicateLoop(frames, frame_numbers, i, j + 1,
                                     new_frames_list)
             ELSE DuplicateLoop(frames, frame_numbers, i + 1, j,
                                Append(new_frames_list, <<j, target>>))

\* (mutant) the next key is not looked at: every target copies the first key
gp_compute_list_FirstKeyOnly(frames, frame_numbers) ==
    LET i == SkipTargetsBeforeFirstKey(frames, frame_numbers, 1)
        rest == SelectSeq(SubSeq(frame_numbers, i, Len(frame_numbers)),
                          LAMBDA t : t # frames[1])
    IN  IF Len(frames) = 0 THEN [raised |-> FALSE, ret |-> <<>>]
        ELSE IF i = 0 THEN [raised |-> TRUE, ret |-> <<>>]
        ELSE [raised |-> FALSE, ret |-> [k \in 1..Len(rest) |-> <<1, rest[k]>>]]

\* The pairs <<index of the key to duplicate, target frame number>>;
\* raised is TRUE when the code raises IndexError instead of returning
gp_compute_list_of_frames_to_duplicate(frames, frame_numbers) ==
    LET i == SkipTargetsBeforeFirstKey(frames, frame_numbers, 1)
    IN  IF Len(frames) = 0 THEN [raised |-> FALSE, ret |-> <<>>]
        ELSE IF i = 0 THEN [raised |-> TRUE, ret |-> <<>>]
        ELSE [raised |-> FALSE,
              ret |-> DuplicateLoop(frames, frame_numbers, i, 1, <<>>)]

\* gpl.frames.copy(gpf, frame_number=target_nr) for every pair of the list:
\* the host keeps the frames of the layer sorted by frame number
RECURSIVE CreateFrames(_, _)
CreateFrames(frames, new_frames_list) ==
    IF new_frames_list = <<>> THEN frames
    ELSE LET target_nr == Head(new_frames_list)[2]
             before == SelectSeq(frames, LAMBDA f : f <= target_nr)
             after == SelectSeq(frames, LAMBDA f : f > target_nr)
         IN  CreateFrames(before \o <<target_nr>> \o after, Tail(new_frames_list))

\* The frames of the layer afterwards; raised is TRUE when the computation of
\* the list raises IndexError, before any frame is created
gp_create_new_duplicated_frames(frames, frame_numbers) ==
    LET new_frames_list ==
            gp_compute_list_of_frames_to_duplicate(frames, frame_numbers)
    IN  IF new_frames_list.raised
        THEN [raised |-> TRUE, frames |-> frames]
        ELSE [raised |-> FALSE,
              frames |-> CreateFrames(frames, new_frames_list.ret)]

----------------------------------------------------------------------------
(* animation/ops.py *)

\* TRANSFORM_OT_keyframes_shift.setup: the keyframes after the current frame
\* on the unlocked layers the options select, and the frame number of the
\* first of them
setup(self, gp, current) ==
    LET keyframes ==
            get_gp_keyframes(gp,
                layer_options_to_traits(self.only_active_layer, TRUE,
                                        self.only_selected_layers),
                current + 1, sys_maxsize)
    IN  [self EXCEPT
            !.keyframes = keyframes,
            !.first_keyframe_init_value =
                IF keyframes = <<>> THEN @ ELSE frame_number(gp.layers, keyframes[1])]

\* (mutant) self.offset is applied as it is, on top of the shifts already made
execute_Relative(self, gp, current, is_invoke) ==
    LET ready == IF is_invoke THEN self ELSE setup(self, gp, current)
        res == shift_keyframes(gp.layers, ready.keyframes, ready.offset,
                               current + 1, TRUE)
    IN  IF ready.keyframes = <<>>
        THEN [self |-> ready, layers |-> gp.layers, ret |-> "CANCELLED"]
        ELSE [self |-> ready, layers |-> res.layers,
              ret |-> IF res.res THEN "FINISHED" ELSE "CANCELLED"]

\* TRANSFORM_OT_keyframes_shift.execute: the operator afterwards, the layers
\* afterwards and the value returned
execute(self, gp, current, is_invoke) ==
    LET \* Setup operator if invoke was not called
        ready == IF is_invoke THEN self ELSE setup(self, gp, current)
        \* Compute absolute offset from original position
        current_delta == frame_number(gp.layers, ready.keyframes[1])
                             - ready.first_keyframe_init_value
        offset == ready.offset - current_delta
        res == shift_keyframes(gp.layers, ready.keyframes, offset,
                               current + 1, TRUE)
    IN  IF ready.keyframes = <<>>
        THEN [self |-> ready, layers |-> gp.layers, ret |-> "CANCELLED"]
        ELSE [self |-> ready, layers |-> res.layers,
              ret |-> IF res.res THEN "FINISHED" ELSE "CANCELLED"]

\* TRANSFORM_OT_keyframes_shift.invoke
invoke(self, gp, current) ==
    LET ready == setup(self, gp, current)
        r == execute(ready, gp, current, TRUE)
    IN  IF ready.keyframes = <<>>
        THEN [self |-> ready, layers |-> gp.layers, ret |-> "CANCELLED",
              executed |-> FALSE]
        ELSE IF ready.interactive
        THEN [self |-> ready, layers |-> gp.layers, ret |-> "RUNNING_MODAL",
              executed |-> FALSE]
        ELSE [self |-> r.self, layers |-> r.layers, ret |-> r.ret,
              executed |-> TRUE]

\* (mutant) the keyframes are left where the last update put them
cancel_KeepShift(self, gp, current) ==
    [self |-> [self EXCEPT !.offset = 0], layers |-> gp.layers,
     executed |-> self.offset # 0]

\* TRANSFORM_OT_keyframes_shift.cancel
cancel(self, gp, current) ==
    IF self.offset # 0
    THEN LET r == execute([self EXCEPT !.offset = 0], gp, current, TRUE)
         IN  [self |-> r.self, layers |-> r.layers, executed |-> TRUE]
    ELSE [self |-> self, layers |-> gp.layers, executed |-> FALSE]

\* TRANSFORM_OT_keyframes_shift.modal: event is [type, value, offset], offset
\* the offset of the mouse from where the session started, in frames;
\* executed tells whether execute was called
modal(self, gp, current, event) ==
    IF event.type \in {"RIGHTMOUSE", "ESC"}
    THEN LET c == cancel(self, gp, current)
         IN  [self |-> c.self, layers |-> c.layers, ret |-> "CANCELLED",
              executed |-> c.executed]
    ELSE IF event.type \in {"LEFTMOUSE", "RET", "NUMPAD_ENTER"} /\ event.value = "PRESS"
    THEN IF self.offset = 0
         THEN LET c == cancel(self, gp, current)
              IN  [self |-> c.self, layers |-> c.layers, ret |-> "CANCELLED",
                   executed |-> c.executed]
         ELSE [self |-> self, layers |-> gp.layers, ret |-> "FINISHED",
               executed |-> FALSE]
    ELSE IF event.type \in {"MOUSEMOVE"} /\ event.offset # self.offset
    THEN LET r == execute([self EXCEPT !.offset = event.offset], gp, current, TRUE)
         IN  [self |-> r.self, layers |-> r.layers, ret |-> "RUNNING_MODAL",
              executed |-> TRUE]
    ELSE [self |-> self, layers |-> gp.layers, ret |-> "RUNNING_MODAL",
          executed |-> FALSE]

\* GPencilCurrentKeyframeSettings.get_current_keyframe_duration: gpf is the
\* index of the active frame in the active layer, 0 when None
get_current_keyframe_duration(gp, gpf) ==
    IF gpf = 0 THEN 0
    ELSE LET frames == gp.layers[gp.active].frames
             later == {k \in 1..Len(frames) : frames[k] > frames[gpf]}
         IN  IF later = {} THEN 0
             ELSE frames[CHOOSE k \in later : \A j \in later : k <= j] - frames[gpf]

\* GPencilCurrentKeyframeSettings.set_current_keyframe_duration: the layers
\* and the current frame afterwards
set_current_keyframe_duration(gp, gpf, current, duration) ==
    IF gpf = 0 THEN [layers |-> gp.layers, frame_current |-> current]
    ELSE LET at == gp.layers[gp.active].frames[gpf]
             offset == duration - get_current_keyframe_duration(gp, gpf)
         IN  [layers |-> shift_gp_keyframes(gp, at, offset, FALSE, TRUE, TRUE,
                                            FALSE).layers,
              frame_current |-> at]

----------------------------------------------------------------------------
(* materials/core.py: names *)

\* A material name is the sequence of its characters
Str_A_m == <<"A", "/", "m">>
Str_A_m_001 == <<"A", "/", "m", ".", "0", "0", "1">>
Str_A_m_002 == <<"A", "/", "m", ".", "0", "0", "2">>
Str_B_m == <<"B", "/", "m">>
Str_Default_m == <<"-", "/", "m">>
Str_Empty_m == <<"/", "m">>
Str_m == <<"m">>
Str_m_001 == <<"m", ".", "0", "0", "1">>

\* The material names of the model, sorted as the host sorts the names of its
\* datablocks: a copy "X.001" comes after its original "X"
MaterialNames ==
    <<Str_Default_m, Str_Empty_m, Str_A_m, Str_A_m_001, Str_A_m_002, Str_B_m,
      Str_m, Str_m_001>>

\* Python's None where a name is expected
None == <<"None">>

DEFAULT_PALETTE_ID == <<"-">>
PALETTE_NAME_SEPARATOR == "/"
VERTEXCOLOR_PALETTE == <<"V", "e", "r", "t", "e", "x", "C", "o", "l", "o", "r">>

gp_material_comparison_attributes ==
    <<"show_stroke", "mode", "stroke_style", "color", "use_stroke_holdout",
      "use_overlap_strokes", "show_fill", "fill_style", "fill_color",
      "use_fill_holdout">>

Digits == {"0", "1", "2", "3", "4", "5", "6", "7", "8", "9"}

\* name.split(PALETTE_NAME_SEPARATOR, 1)
split_material_name(name) ==
    LET seps == {i \in 1..Len(name) : name[i] = PALETTE_NAME_SEPARATOR}
        first == CHOOSE i \in seps : \A j \in seps : i <= j
    IN  IF seps = {} THEN <<name>>
        ELSE <<SubSeq(name, 1, first - 1), SubSeq(name, first + 1, Len(name))>>

\* (mutant) split[0] whatever the length of the split: a name without
\* separator is its own palette
get_palette_name_NoneAsName(name) == split_material_name(name)[1]

\* The palette component of a material name, None without separator
get_palette_name(name) ==
    LET split == split_material_name(name)
    IN  IF Len(split) > 1 THEN split[1] ELSE None

\* Python's truth value of a palette name: None and "" are false
IsTruthy(palette) == palette # None /\ palette # <<>>

\* spa_anim2D.utils.remove_auto_numbering_suffix: the name without the ".NNN"
\* suffix the host appends to the name of a copy
remove_auto_numbering_suffix(name) ==
    LET n == Len(name)
    IN  IF /\ n >= 4
           /\ name[n - 3] = "."
           /\ \A i \in (n - 2)..n : name[i] \in Digits
        THEN SubSeq(name, 1, n - 4)
        ELSE name

----------------------------------------------------------------------------
(* materials/core.py: materials and palettes *)

\* A world is the host data the functions read and write, and the registry:
\*   mats : material name -> [exists, is_grease_pencil, library, grease_pencil]
\*          ([exists |-> FALSE] for a name no material has)
\*   gps  : sequence of grease-pencil datablocks
\*          [material_palette_str (None when the key is absent), materials]
\*   pal  : material_palettes, the dict as the sequence of its items
\*          [name, mats] in insertion order

NoMaterial == [exists |-> FALSE]

\* bpy.data.materials: the host lists the local datablocks by name, then the
\* datablocks linked from a library
bpy_data_materials(mats) ==
    SelectSeq(MaterialNames, LAMBDA n : mats[n].exists /\ ~mats[n].library)
        \o SelectSeq(MaterialNames, LAMBDA n : mats[n].exists /\ mats[n].library)

get_grease_pencil_materials(mats, only_local) ==
    SelectSeq(bpy_data_materials(mats),
              LAMBDA n : /\ mats[n].is_grease_pencil
                         /\ (~mats[n].library \/ ~only_local))

\* (mutant) the settings are not compared: same short name means duplicate
are_similar_gp_materials_NoCompare(mats, materialA, materialB) == TRUE

are_similar_gp_materials(mats, materialA, materialB) ==
    \A i \in 1..Len(gp_material_comparison_attributes) :
        LET attr == gp_material_comparison_attributes[i]
        IN  mats[materialA].grease_pencil[attr] = mats[materialB].grease_pencil[attr]

\* (mutant) the users are remapped to the material itself: nothing changes
user_remap_Nothing(gps, matB, matA) == gps

\* ID.user_remap: every slot using matB uses matA
user_remap(gps, matB, matA) ==
    [g \in 1..Len(gps) |->
        [gps[g] EXCEPT !.materials =
            [i \in 1..Len(gps[g].materials) |->
                IF gps[g].materials[i] = matB THEN matA
                ELSE gps[g].materials[i]]]]

\* The users of a material: the material slots holding it
Users(gps, mat) ==
    Cardinality(UNION {{<<g, i>> : i \in {j \in 1..Len(gps[g].materials) :
                                              gps[g].materials[j] = mat}} :
                       g \in 1..Len(gps)})

\* First pass of cleanup_duplicated_materials: the short names of the groups
\* in order of first appearance, and the materials of a group
CandidateMaterials(mats) ==
    SelectSeq(get_grease_pencil_materials(mats, TRUE),
              LAMBDA n : IsTruthy(get_palette_name(n)))

SimilarCandidates(mats, short_name) ==
    SelectSeq(CandidateMaterials(mats),
              LAMBDA n : remove_auto_numbering_suffix(n) = short_name)

RECURSIVE Dedup(_)
Dedup(s) ==
    IF s = <<>> THEN <<>>
    ELSE LET r == Dedup(SubSeq(s, 1, Len(s) - 1))
         IN  IF s[Len(s)] \in Range(r) THEN r ELSE Append(r, s[Len(s)])

CandidateGroups(mats) ==
    LET c == CandidateMaterials(mats)
    IN  Dedup([i \in 1..Len(c) |-> remove_auto_numbering_suffix(c[i])])

\* Second pass, inner loop: matA against mat_list[j..]; st = [gps, orphans]
RECURSIVE CompareWithNext(_, _, _, _, _)
CompareWithNext(mats, mat_list, matA, j, st) ==
    IF j > Len(mat_list) THEN st
    ELSE LET matB == mat_list[j]
         IN  IF are_similar_gp_materials(mats, matA, matB)
             THEN CompareWithNext(mats, mat_list, matA, j + 1,
                      [gps |-> user_remap(st.gps, matB, matA),
                       orphans |-> st.orphans \cup {matB}])
             ELSE CompareWithNext(mats, mat_list, matA, j + 1, st)

\* Second pass, outer loop over the materials of a group
RECURSIVE CleanupGroup(_, _, _, _)
CleanupGroup(mats, mat_list, i, st) ==
    IF i > Len(mat_list) THEN st
    ELSE IF mat_list[i] \in st.orphans
         THEN CleanupGroup(mats, mat_list, i + 1, st)
         ELSE CleanupGroup(mats, mat_list, i + 1,
                  CompareWithNext(mats, mat_list, mat_list[i], i + 1, st))

RECURSIVE CleanupGroups(_, _, _, _)
CleanupGroups(mats, groups, k, st) ==
    IF k > Len(groups) THEN st
    ELSE LET mat_list == SimilarCandidates(mats, groups[k])
         IN  IF Len(mat_list) = 1
             THEN CleanupGroups(mats, groups, k + 1, st)
             ELSE CleanupGroups(mats, groups, k + 1,
                                CleanupGroup(mats, mat_list, 1, st))

\* bpy.data.batch_remove: the datablocks are freed; a slot still using one of
\* them is emptied
batch_remove(w, orphans) ==
    [w EXCEPT
        !.mats = [n \in DOMAIN w.mats |->
                     IF n \in orphans THEN NoMaterial ELSE w.mats[n]],
        !.gps = [g \in 1..Len(w.gps) |->
                    [w.gps[g] EXCEPT !.materials =
                        [i \in 1..Len(w.gps[g].materials) |->
                            IF w.gps[g].materials[i] \in orphans THEN None
                            ELSE w.gps[g].materials[i]]]]]

cleanup_duplicated_materials(w) ==
    LET st == CleanupGroups(w.mats, CandidateGroups(w.mats), 1,
                            [gps |-> w.gps, orphans |-> {}])
    IN  batch_remove([w EXCEPT !.gps = st.gps], st.orphans)

\* list(material_palettes)
PaletteKeys(pal) == [i \in 1..Len(pal) |-> pal[i].name]

\* material_palettes[palette]
PaletteMaterials(pal, palette) ==
    LET i == CHOOSE i \in 1..Len(pal) : pal[i].name = palette
    IN  pal[i].mats

\* material_palettes[palette].append(mat), the key being created when missing
RegisterMaterial(pal, palette, mat) ==
    IF palette \in Range(PaletteKeys(pal))
    THEN [i \in 1..Len(pal) |->
            IF pal[i].name = palette
            THEN [pal[i] EXCEPT !.mats = Append(@, mat)]
            ELSE pal[i]]
    ELSE Append(pal, [name |-> palette, mats |-> <<mat>>])

\* (mutant) the mat_list named after the default palette are registered in it
FillPalettes_DefaultToo(pal, mat_list) ==
    LET Step[k \in 0..Len(mat_list)] ==
            IF k = 0 THEN pal
            ELSE IF ~IsTruthy(get_palette_name(mat_list[k])) THEN Step[k - 1]
            ELSE RegisterMaterial(Step[k - 1], get_palette_name(mat_list[k]),
                                  mat_list[k])
    IN  Step[Len(mat_list)]

\* The loop of refresh_palettes over the grease pencil mat_list
FillPalettes(pal, mat_list) ==
    LET Step[k \in 0..Len(mat_list)] ==
            IF k = 0 THEN pal
            ELSE LET palette == get_palette_name(mat_list[k])
                 IN  IF ~IsTruthy(palette) THEN Step[k - 1]
                     ELSE IF palette = DEFAULT_PALETTE_ID THEN Step[k - 1]
                     ELSE RegisterMaterial(Step[k - 1], palette, mat_list[k])
    IN  Step[Len(mat_list)]

\* (mutant) the fallback returns the default index and stores nothing
\* get function answering with the index the palette had when it was the only one
get_material_palette_value_StaleIndex(gp, pal) ==
    LET keys == PaletteKeys(pal)
    IN  IF gp.material_palette_str # None
        THEN IF gp.material_palette_str \in Range(keys)
             THEN [gp |-> gp,
                   value |-> Min((CHOOSE i \in 1..Len(keys) :
                                     keys[i] = gp.material_palette_str) - 1, 1)]
             ELSE [gp |-> [gp EXCEPT !.material_palette_str = DEFAULT_PALETTE_ID],
                   value |-> 0]
        ELSE [gp |-> gp, value |-> 0]

get_material_palette_value_NoReset(gp, pal) ==
    LET keys == PaletteKeys(pal)
    IN  IF gp.material_palette_str # None /\ gp.material_palette_str \in Range(keys)
        THEN [gp |-> gp,
              value |-> (CHOOSE i \in 1..Len(keys) :
                            keys[i] = gp.material_palette_str) - 1]
        ELSE [gp |-> gp, value |-> 0]

\* GreasePencil.material_palette get function: the enum index (from 0), and the
\* datablock, whose stored name falls back to the default when not registered
get_material_palette_value(gp, pal) ==
    LET keys == PaletteKeys(pal)
    IN  IF gp.material_palette_str # None
        THEN IF gp.material_palette_str \in Range(keys)
             THEN [gp |-> gp,
                   value |-> (CHOOSE i \in 1..Len(keys) :
                                 keys[i] = gp.material_palette_str) - 1]
             ELSE [gp |-> [gp EXCEPT !.material_palette_str = DEFAULT_PALETTE_ID],
                   value |-> 0]
        ELSE [gp |-> gp, value |-> 0]

\* GreasePencil.material_palette set function
set_material_palette_value(gp, pal, index) ==
    [gp EXCEPT !.material_palette_str = PaletteKeys(pal)[index + 1]]

\* The items of the enum: <<identifier, number>> of the registered palettes
\* except the internal one (the registry is initialized by the caller)
get_material_palettes_enum_items(pal) ==
    SelectSeq([i \in 1..Len(pal) |-> <<pal[i].name, i - 1>>],
              LAMBDA item : item[1] # VERTEXCOLOR_PALETTE)

\* Reading gpencil.material_palette: the host calls the get function and looks
\* the index up in the items; "" when no item has this number
ReadMaterialPalette(gp, pal) ==
    LET r == get_material_palette_value(gp, pal)
        items == get_material_palettes_enum_items(pal)
        found == {i \in 1..Len(items) : items[i][2] = r.value}
    IN  [gp |-> r.gp,
         value |-> IF found = {} THEN <<>>
                   ELSE items[CHOOSE i \in found : TRUE][1]]

\* (mutant) only the first material of the palette is assigned
AppendMissing_FirstOnly(slots, mat_list) ==
    IF mat_list = <<>> \/ mat_list[1] \in Range(slots) THEN slots
    ELSE Append(slots, mat_list[1])

\* for mat in material_palettes[palette]: append mat unless already assigned
AppendMissing(slots, mat_list) ==
    LET Step[k \in 0..Len(mat_list)] ==
            IF k = 0 THEN slots
            ELSE IF mat_list[k] \in Range(Step[k - 1]) THEN Step[k - 1]
            ELSE Append(Step[k - 1], mat_list[k])
    IN  Step[Len(mat_list)]

\* Assign to the datablock its active palette's materials
assign_active_palette_materials(gp, pal) ==
    LET r == ReadMaterialPalette(gp, pal)
    IN  IF r.value \notin Range(PaletteKeys(pal))
        THEN \* gpencil.material_palette = DEFAULT_PALETTE_ID: the set function
             \* stores the default, whose palette holds no material to assign
             set_material_palette_value(r.gp, pal, 0)
        ELSE [r.gp EXCEPT !.materials =
                 AppendMissing(@, PaletteMaterials(pal, r.value))]

\* Clear and rebuild the registry from the material datablocks; is_blend_data
\* is isinstance(bpy.data, bpy.types.BlendData)
refresh_palettes(w, is_blend_data, cleanup_materials) ==
    LET w1 == IF cleanup_materials THEN cleanup_duplicated_materials(w) ELSE w
        pal == FillPalettes(<<[name |-> DEFAULT_PALETTE_ID, mats |-> <<>>]>>,
                            get_grease_pencil_materials(w1.mats, FALSE))
    IN  IF ~is_blend_data THEN [w EXCEPT !.pal = <<>>]
        ELSE IF cleanup_materials
        THEN [w1 EXCEPT !.pal = pal,
                        !.gps = [g \in 1..Len(w1.gps) |->
                                    assign_active_palette_materials(w1.gps[g], pal)]]
        ELSE [w1 EXCEPT !.pal = pal]

\* The callbacks of the enum property GreasePencil.material_palette as the
\* host runs them, on the datablock g of the world w.

\* The registry as the items callback leaves it: refreshed when empty
ItemsRegistry(w) ==
    IF w.pal = <<>> THEN refresh_palettes(w, TRUE, FALSE).pal ELSE w.pal

\* Reading gpencil.material_palette: the get function, then the items
\* callback, where the host looks the identifier of the index up
material_palette_get(w, g) ==
    LET r == get_material_palette_value(w.gps[g], w.pal)
        pal == ItemsRegistry(w)
        items == get_material_palettes_enum_items(pal)
        found == {i \in 1..Len(items) : items[i][2] = r.value}
    IN  [w |-> [w EXCEPT !.gps[g] = r.gp, !.pal = pal],
         value |-> IF found = {} THEN <<>>
                   ELSE items[CHOOSE i \in found : TRUE][1]]

\* (mutant) the update callback appends the materials of the palette whether
\* assigned already or not
update_gpencil_palette_AppendAll(gp, pal) ==
    [gp EXCEPT !.materials = @ \o PaletteMaterials(pal, gp.material_palette_str)]

\* update function of the property
update_gpencil_palette(gp, pal) == assign_active_palette_materials(gp, pal)

\* (mutant) a name that is no item of the enum is stored as it is
material_palette_set_Unchecked(w, g, name) ==
    [w |-> [w EXCEPT !.gps[g].material_palette_str = name,
                     !.pal = ItemsRegistry(w)],
     raised |-> FALSE]

\* Writing gpencil.material_palette = name: the host looks name up in the
\* items (TypeError when it is no identifier of an item), calls the set
\* function with the number of the item, then the update function
material_palette_set(w, g, name) ==
    LET pal == ItemsRegistry(w)
        items == get_material_palettes_enum_items(pal)
        found == {i \in 1..Len(items) : items[i][1] = name}
    IN  IF found = {}
        THEN [w |-> [w EXCEPT !.pal = pal], raised |-> TRUE]
        ELSE LET index == items[CHOOSE i \in found : TRUE][2]
                 gp == set_material_palette_value(w.gps[g], pal, index)
             IN  [w |-> [w EXCEPT !.gps[g] = update_gpencil_palette(gp, pal),
                                  !.pal = pal],
                  raised |-> FALSE]

\* File load_pre callback
on_load_pre(w) == [w EXCEPT !.pal = <<>>]

\* File load_post callback
on_load_post(w) == refresh_palettes(w, TRUE, FALSE)

\* (mutant) the undo-redo callback is not registered: the registry stays
on_undo_redo_Stale(w) == w

\* Undo-redo callback
on_undo_redo(w) == refresh_palettes(w, TRUE, FALSE)

----------------------------------------------------------------------------
(* layout/core.py: depth of an object from the camera *)

\* The coordinates are rational numbers <<n, d>> in lowest terms, d > 0: the
\* arithmetic of the functions is modelled exactly
Abs(x) == IF x < 0 THEN 0 - x ELSE x

RECURSIVE GCD(_, _)
GCD(a, b) == IF b = 0 THEN a ELSE GCD(b, a % b)

Rat(n, d) ==
    LET g == GCD(Abs(n), Abs(d))
        sgn == IF d < 0 THEN 0 - 1 ELSE 1
    IN  <<(sgn * n) \div g, (sgn * d) \div g>>

RatInt(n) == <<n, 1>>
RatAdd(a, b) == Rat(a[1] * b[2] + b[1] * a[2], a[2] * b[2])
RatSub(a, b) == Rat(a[1] * b[2] - b[1] * a[2], a[2] * b[2])
RatMul(a, b) == Rat(a[1] * b[1], a[2] * b[2])
RatDiv(a, b) == Rat(a[1] * b[2], a[2] * b[1])
RatNeg(a) == <<0 - a[1], a[2]>>
RatAbs(a) == <<Abs(a[1]), a[2]>>
RatSign(a) == IF a[1] < 0 THEN 0 - 1 ELSE IF a[1] > 0 THEN 1 ELSE 0

\* mathutils.Vector of size 3
Vector(x, y, z) == <<RatInt(x), RatInt(y), RatInt(z)>>
VecAdd(u, v) == [i \in 1..3 |-> RatAdd(u[i], v[i])]
VecSub(u, v) == [i \in 1..3 |-> RatSub(u[i], v[i])]
VecScale(k, v) == [i \in 1..3 |-> RatMul(k, v[i])]

\* math.nan
nan == <<"nan">>

\* bpy.context.scene.camera is None
NoCamera == [is_none |-> TRUE]

\* An object is [location, rot, scale, lock_location, lock_scale, parent_scale,
\* is_camera]: location and scale are its own (local) properties, rot the
\* signs of its diagonal rotation matrix, parent_scale the uniform scale of
\* its parent (1 without parent). A camera is the matrix_world of the camera
\* object: [translation, axis, sign], where the local axis i of the camera
\* is sign[i] times the world axis axis[i].

\* obj.matrix_world: the matrix of the parent times the matrix of the object;
\* a matrix is [translation, linear], linear the diagonal of its 3x3 part
matrix_world(ob) ==
    [translation |-> VecScale(RatInt(ob.parent_scale), ob.location),
     linear |-> [i \in 1..3 |->
                    RatMul(RatInt(ob.parent_scale * ob.rot[i]), ob.scale[i])]]

\* Matrix.decompose: the sizes are the lengths of the axes, the rotation the
\* normalized axes; both are negated when the rotation is a reflection
decompose(matrix) ==
    LET size == [i \in 1..3 |-> RatAbs(matrix.linear[i])]
        rot == [i \in 1..3 |-> RatSign(matrix.linear[i])]
        is_negative == rot[1] * rot[2] * rot[3] < 0
    IN  [loc |-> matrix.translation,
         rot |-> IF is_negative THEN [i \in 1..3 |-> 0 - rot[i]] ELSE rot,
         sc  |-> IF is_negative THEN [i \in 1..3 |-> RatNeg(size[i])] ELSE size]

\* obj.matrix_world = matrix: the host takes the location, rotation and scale
\* of the object from the matrix brought back into the space of the parent
SetMatrixWorld(ob, matrix) ==
    LET inv == Rat(1, ob.parent_scale)
        local == decompose([translation |-> VecScale(inv, matrix.translation),
                            linear |-> VecScale(inv, matrix.linear)])
    IN  [ob EXCEPT !.location = local.loc, !.rot = local.rot, !.scale = local.sc]

\* cam_matrix @ v for a vector of size 3: the point v in world space
MatrixApply(cam_matrix, v) ==
    [j \in 1..3 |->
        LET i == CHOOSE k \in 1..3 : cam_matrix.axis[k] = j
        IN  RatAdd(cam_matrix.translation[j],
                   RatMul(RatInt(cam_matrix.sign[i]), v[i]))]

\* cam_matrix.inverted() @ p
ViewApply(cam_matrix, p) ==
    [i \in 1..3 |->
        RatMul(RatInt(cam_matrix.sign[i]),
               RatSub(p[cam_matrix.axis[i]],
                      cam_matrix.translation[cam_matrix.axis[i]]))]

\* get_depth_from_view(cam_matrix.inverted(), obj)
get_depth_from_view(cam_matrix, ob) ==
    RatNeg(ViewApply(cam_matrix, matrix_world(ob).translation)[3])

\* Translation and uniform scale matrices as [k, t]: p -> k * p + t
Translation(v) == [k |-> RatInt(1), t |-> v]
Scale(factor) == [k |-> factor, t |-> Vector(0, 0, 0)]
Inverted(m) == [k |-> RatDiv(RatInt(1), m.k), t |-> VecScale(RatNeg(RatDiv(RatInt(1), m.k)), m.t)]
MatMul(m1, m2) == [k |-> RatMul(m1.k, m2.k), t |-> VecAdd(VecScale(m1.k, m2.t), m1.t)]

\* (mutant) the locks of the object are not looked at
set_depth_from_camera_NoLock(cam_matrix, ob, depth, adjust_scale) ==
    LET measured == get_depth_from_view(cam_matrix, ob)
        at_camera == measured = RatInt(0)
        current_depth == IF at_camera THEN RatInt(1) ELSE measured
        cam_to_obj_vec ==
            IF at_camera
            THEN MatrixApply(cam_matrix, Vector(0, 0, 0 - 1))
            ELSE VecSub(matrix_world(ob).translation, cam_matrix.translation)
        depth_diff_ratio == RatDiv(RatInt(depth), current_depth)
        transform_mat == MatMul(Inverted(Translation(cam_to_obj_vec)),
                                MatMul(Scale(depth_diff_ratio),
                                       Translation(cam_to_obj_vec)))
        d == decompose(matrix_world(ob))
        moved == SetMatrixWorld(ob,
            [translation |-> VecAdd(d.loc, transform_mat.t),
             linear |-> [i \in 1..3 |->
                RatMul(transform_mat.k, RatMul(RatInt(d.rot[i]), d.sc[i]))]])
    IN  IF adjust_scale THEN moved ELSE [moved EXCEPT !.scale = d.sc]

\* Place the object at the given depth from the camera, in camera-to-object
\* axis
set_depth_from_camera(cam_matrix, ob, depth, adjust_scale) ==
    IF \E i \in 1..3 : ob.lock_scale[i] \/ ob.lock_location[i] THEN ob
    ELSE LET measured == get_depth_from_view(cam_matrix, ob)
             \* abs(current_depth) < sys.float_info.epsilon
             at_camera == measured = RatInt(0)
             current_depth == IF at_camera THEN RatInt(1) ELSE measured
             cam_to_obj_vec ==
                 IF at_camera
                 THEN MatrixApply(cam_matrix, Vector(0, 0, 0 - 1))
                 ELSE VecSub(matrix_world(ob).translation, cam_matrix.translation)
             depth_diff_ratio == RatDiv(RatInt(depth), current_depth)
             transform_mat == MatMul(Inverted(Translation(cam_to_obj_vec)),
                                     MatMul(Scale(depth_diff_ratio),
                                            Translation(cam_to_obj_vec)))
             d == decompose(matrix_world(ob))
             \* post_mat @ transform_mat @ pre_matrix
             moved == SetMatrixWorld(ob,
                 [translation |-> VecAdd(d.loc, transform_mat.t),
                  linear |-> [i \in 1..3 |->
                     RatMul(transform_mat.k, RatMul(RatInt(d.rot[i]), d.sc[i]))]])
         IN  IF adjust_scale THEN moved ELSE [moved EXCEPT !.scale = d.sc]

\* Depth of the object from the active camera cam
camera_view_depth_get(cam, ob) ==
    IF cam # NoCamera THEN get_depth_from_view(cam, ob) ELSE nan

\* Set the depth of the object from the active camera cam
camera_view_depth_set(cam, ob, value) ==
    IF cam # NoCamera /\ ~ob.is_camera
    THEN set_depth_from_camera(cam, ob, value, TRUE)
    ELSE ob

-----------------------------------------------------------------------------
(* Pegbar system: animation/pegs/core.py, animation/pegs/ops.py and
   PegsTransformWidgetGroup of animation/pegs/ui.py *)

PEGS_ROOT_BONE_PREFIX == ".root_"
PEGS_OFFSET_BONE_PREFIX == ".offset_"

\* A name of the host by its parts: prefix + base, followed by the suffix
\* ".00n" the host appends to make a name unique when n > 0
Name(prefix, base, n) == [prefix |-> prefix, base |-> base, n |-> n]

\* The empty string; it also stands for None where the code holds a bone, a
\* bone group or an action group
EmptyName == Name("", "", 0)

\* f"{prefix}{name}" for a name without prefix
Prefixed(prefix, name) == [name EXCEPT !.prefix = prefix]

\* The name the host gives when `name` is asked for and the names in `taken`
\* are in use: the name itself, or the name with the first free suffix
host_unique_name(name, taken) ==
    IF name \notin taken THEN name
    ELSE [name EXCEPT !.n =
            CHOOSE k \in 1..(Cardinality(taken) + 1) :
                /\ [name EXCEPT !.n = k] \notin taken
                /\ \A j \in 1..(k - 1) : [name EXCEPT !.n = j] \in taken]

\* pose.bone_groups.get(name): the index of the bone group, 0 for None
bone_groups_get(arm, name) ==
    IF \E i \in 1..Len(arm.bone_groups) : arm.bone_groups[i] = name
    THEN CHOOSE i \in 1..Len(arm.bone_groups) : arm.bone_groups[i] = name
    ELSE 0

\* pose.bone_groups.active: its name, EmptyName for None
bone_groups_active(arm) ==
    IF arm.active_index \in 0..(Len(arm.bone_groups) - 1)
    THEN arm.bone_groups[arm.active_index + 1]
    ELSE EmptyName

\* The index of the bone named `name`, 0 when there is none
bone_index(arm, name) ==
    IF \E i \in 1..Len(arm.bones) : arm.bones[i].name = name
    THEN CHOOSE i \in 1..Len(arm.bones) : arm.bones[i].name = name
    ELSE 0

\* action.groups.get(name): the index of the action group, 0 for None
action_groups_get(arm, name) ==
    IF \E i \in 1..Len(arm.groups) : arm.groups[i].name = name
    THEN CHOOSE i \in 1..Len(arm.groups) :
            /\ arm.groups[i].name = name
            /\ \A j \in 1..(i - 1) : arm.groups[j].name # name
    ELSE 0

\* The layers whose parent_bone is the bone: their indices
get_parented_layers_from_offset_bone_name(gpd_layers, offset_bone_name) ==
    {l \in 1..Len(gpd_layers) : gpd_layers[l].parent_bone = offset_bone_name}

\* The first pose bone of the group whose name starts with the offset prefix,
\* and its parent; (None, None) without such a bone
get_pose_bones_from_peg_bone_group(arm, bone_group) ==
    LET found == {i \in 1..Len(arm.bones) :
                    /\ arm.bones[i].bone_group = bone_group
                    /\ arm.bones[i].name.prefix = PEGS_OFFSET_BONE_PREFIX}
    IN  IF found = {} THEN [root |-> EmptyName, offset |-> EmptyName]
        ELSE LET i == CHOOSE i \in found : \A j \in found : i <= j
             IN  [root |-> arm.bones[i].parent, offset |-> arm.bones[i].name]

get_bones_from_peg_bone_group(arm, bone_group) ==
    LET pose == get_pose_bones_from_peg_bone_group(arm, bone_group)
    IN  IF pose.root # EmptyName /\ pose.offset # EmptyName THEN pose
        ELSE [root |-> EmptyName, offset |-> EmptyName]

\* The f-curves peg_keyframe keys: bone, property and array index, in the
\* order of its calls
KeyedChannels ==
    << <<"root", "location", 0>>, <<"root", "location", 2>>,
       <<"offset", "location", 0>>, <<"offset", "location", 2>>,
       <<"offset", "rotation_euler", 1>>,
       <<"offset", "scale", 0>>, <<"offset", "scale", 2>> >>

\* bone.keyframe_insert(data_path, index=index, group=group) on frame `frame`:
\* the host keys the f-curve of the property, which it creates when there is
\* none, with the action, in the action group `group` (created when there is
\* none, after the f-curves that are in a group)
keyframe_insert(arm, bone, data_path, index, group, frame) ==
    LET same == {i \in 1..Len(arm.fcurves) :
                    /\ arm.fcurves[i].bone = bone
                    /\ arm.fcurves[i].data_path = data_path
                    /\ arm.fcurves[i].array_index = index}
        grouped == {i \in 1..Len(arm.fcurves) : arm.fcurves[i].group # EmptyName}
        new == [bone |-> bone, data_path |-> data_path, array_index |-> index,
                group |-> group, keyframe_points |-> {frame}]
    IN  IF same # {}
        THEN [arm EXCEPT
                !.animation_data = TRUE,
                !.fcurves = [i \in 1..Len(arm.fcurves) |->
                    IF i \in same
                    THEN [arm.fcurves[i] EXCEPT
                            !.keyframe_points = @ \union {frame}]
                    ELSE arm.fcurves[i]]]
        ELSE [arm EXCEPT
                !.animation_data = TRUE,
                !.groups = IF action_groups_get(arm, group) = 0
                           THEN Append(@, [name |-> group, mute |-> FALSE])
                           ELSE @,
                !.fcurves = SubSeq(@, 1, Cardinality(grouped)) \o <<new>>
                            \o SubSeq(@, Cardinality(grouped) + 1, Len(@))]

RECURSIVE KeyChannels(_, _, _, _, _, _)
KeyChannels(arm, root_bone, offset_bone, group_name, frame, k) ==
    IF k > Len(KeyedChannels) THEN arm
    ELSE LET c == KeyedChannels[k]
             bone == IF c[1] = "root" THEN root_bone ELSE offset_bone
         IN  KeyChannels(keyframe_insert(arm, bone, c[2], c[3], group_name, frame),
                         root_bone, offset_bone, group_name, frame, k + 1)

peg_keyframe(arm, root_bone, offset_bone, group_name, frame) ==
    KeyChannels(arm, root_bone, offset_bone, group_name, frame, 1)

\* An armature object without bones: its bone groups, its bones (name, bone
\* group, parent, hide), whether it has animation data with an action, and the
\* action groups and f-curves of the action
NoArmature ==
    [bone_groups |-> <<>>, active_index |-> 0 - 1, bones |-> <<>>,
     animation_data |-> FALSE, groups |-> <<>>, fcurves |-> <<>>]

\* What an operator leaves: the data after it, and its status code or the
\* fact that it ended with an exception
Finished(ctx) == [context |-> ctx, ret |-> "FINISHED", raised |-> FALSE]
Cancelled(ctx) == [context |-> ctx, ret |-> "CANCELLED", raised |-> FALSE]
Raised(ctx) == [context |-> ctx, ret |-> "none", raised |-> TRUE]

ANIM_OT_peg_add(ctx, name) ==
    LET arm == ctx.armature
        bone_names == {arm.bones[i].name : i \in 1..Len(arm.bones)}
        peg_root_name ==
            host_unique_name(Prefixed(PEGS_ROOT_BONE_PREFIX, name), bone_names)
        peg_offset_name ==
            host_unique_name(Prefixed(PEGS_OFFSET_BONE_PREFIX, name),
                             bone_names \union {peg_root_name})
        bone_group == host_unique_name(name, Range(arm.bone_groups))
        with_bones ==
            [arm EXCEPT
                !.bone_groups = Append(@, bone_group),
                !.active_index = Len(arm.bone_groups),
                !.bones = @ \o
                    << [name |-> peg_root_name, bone_group |-> bone_group,
                        parent |-> EmptyName, hide |-> FALSE],
                       [name |-> peg_offset_name, bone_group |-> bone_group,
                        parent |-> peg_root_name, hide |-> FALSE] >>]
    IN  Finished([ctx EXCEPT
            !.armature = peg_keyframe(with_bones, peg_root_name, peg_offset_name,
                                      bone_group, ctx.frame_current),
            !.active_object = "GPENCIL"])

\* The default of the name property of ANIM_OT_peg_add
DefaultPegName == Name("", "Peg", 0)

ANIM_OT_pegbar_create_NoCheck(ctx) ==
    Finished(ANIM_OT_peg_add([ctx EXCEPT !.pegbar_object = TRUE,
                                         !.armature = NoArmature],
                             DefaultPegName).context)

ANIM_OT_pegbar_create(ctx) ==
    IF ctx.pegbar_object THEN Cancelled(ctx)
    ELSE Finished(ANIM_OT_peg_add([ctx EXCEPT !.pegbar_object = TRUE,
                                              !.armature = NoArmature],
                                  DefaultPegName).context)

\* for f in fcurves: if f is on one of the bones: fcurves.remove(f). The
\* removal frees the f-curve the iterator of the host collection stands on,
\* and what the iterator reads from it next is not defined: "intact", the
\* link to the next f-curve is still there and the loop goes on; "ended", it
\* reads as the end of the list and the loop ends
RemoveBoneFCurves(fcurves, bone_names, iterator) ==
    LET on == {i \in 1..Len(fcurves) : fcurves[i].bone \in bone_names}
    IN  IF on = {} THEN fcurves
        ELSE LET first == CHOOSE i \in on : \A j \in on : i <= j
             IN  IF iterator = "intact"
                 THEN SelectSeq(fcurves, LAMBDA f : f.bone \notin bone_names)
                 ELSE SubSeq(fcurves, 1, first - 1)
                      \o SubSeq(fcurves, first + 1, Len(fcurves))

\* action.groups.remove(group): the host moves the f-curves of the group out
\* of it, to the end of the f-curves of the action
action_groups_remove(arm, name) ==
    LET moved == SelectSeq(arm.fcurves, LAMBDA f : f.group = name)
    IN  [arm EXCEPT
            !.groups = SelectSeq(@, LAMBDA g : g.name # name),
            !.fcurves = SelectSeq(@, LAMBDA f : f.group # name)
                        \o [i \in 1..Len(moved) |->
                              [moved[i] EXCEPT !.group = EmptyName]]]

ANIM_OT_peg_remove(ctx, name, iterator) ==
    LET arm == ctx.armature
        bones == get_bones_from_peg_bone_group(arm, name)
        parented_layers ==
            get_parented_layers_from_offset_bone_name(ctx.layers, bones.offset)
        unparented ==
            [ctx EXCEPT
                !.layers = [l \in 1..Len(ctx.layers) |->
                    IF l \in parented_layers
                    THEN [ctx.layers[l] EXCEPT !.parent_bone = EmptyName,
                                               !.parent_type = "OBJECT"]
                    ELSE ctx.layers[l]],
                !.active_object = "ARMATURE"]
        updated_bone_group_index ==
            Min(arm.active_index, Len(arm.bone_groups) - 2)
        ungrouped ==
            IF action_groups_get(arm, name) # 0
            THEN action_groups_remove(arm, name) ELSE arm
        on_bones == {i \in 1..Len(arm.fcurves) :
                        arm.fcurves[i].bone \in {bones.root, bones.offset}}
        no_animation ==
            IF arm.animation_data
            THEN [ungrouped EXCEPT
                    !.fcurves = RemoveBoneFCurves(@, {bones.root, bones.offset},
                                                  iterator)]
            ELSE arm
        kept == SelectSeq(no_animation.bones,
                          LAMBDA b : b.name \notin {bones.root, bones.offset})
        removed ==
            [no_animation EXCEPT
                !.bones = [i \in 1..Len(kept) |->
                    IF kept[i].parent \in {bones.root, bones.offset}
                    THEN [kept[i] EXCEPT !.parent = EmptyName] ELSE kept[i]],
                !.bone_groups = SelectSeq(@, LAMBDA g : g # name),
                !.active_index = IF Len(arm.bone_groups) >= 2
                                 THEN updated_bone_group_index ELSE 0 - 1]
    IN  IF bone_groups_get(arm, name) = 0 THEN Cancelled(ctx)
        ELSE IF bones.offset = EmptyName THEN Raised(ctx)
        ELSE IF arm.animation_data /\ on_bones # {} /\ iterator = "raised"
        THEN Raised([unparented EXCEPT
                        !.armature = [ungrouped EXCEPT !.fcurves =
                            RemoveBoneFCurves(@, {bones.root, bones.offset},
                                              "ended")]])
        ELSE Finished([unparented EXCEPT !.armature = removed,
                                         !.active_object = "GPENCIL"])

\* bone.name = new_name: the host gives the bone a unique name and renames
\* what refers to the bone by name: the parent of its children, the data
\* paths of the f-curves, the parent_bone of the layers
host_bone_rename(ctx, old_name, new_name) ==
    LET arm == ctx.armature
        others == {arm.bones[i].name : i \in 1..Len(arm.bones)} \ {old_name}
        unique == host_unique_name(new_name, others)
        renamed(n) == IF n = old_name THEN unique ELSE n
    IN  [ctx EXCEPT
            !.armature.bones = [i \in 1..Len(@) |->
                [@[i] EXCEPT !.name = renamed(@), !.parent = renamed(@)]],
            !.armature.fcurves = [i \in 1..Len(@) |->
                [@[i] EXCEPT !.bone = renamed(@)]],
            !.layers = [l \in 1..Len(@) |->
                [@[l] EXCEPT !.parent_bone = renamed(@)]]]

\* peg_rename of pegs/core.py; raised when action.groups[old_name] fails
peg_rename(ctx, old_name, new_name) ==
    LET arm == ctx.armature
        bone_group ==
            host_unique_name(new_name, Range(arm.bone_groups) \ {old_name})
        group_renamed ==
            [ctx EXCEPT
                !.armature.bone_groups = [i \in 1..Len(@) |->
                    IF @[i] = old_name THEN bone_group ELSE @[i]],
                !.armature.bones = [i \in 1..Len(@) |->
                    IF @[i].bone_group = old_name
                    THEN [@[i] EXCEPT !.bone_group = bone_group] ELSE @[i]]]
        action_renamed ==
            IF arm.animation_data
            THEN [group_renamed EXCEPT
                    !.armature.groups = [i \in 1..Len(@) |->
                        IF i = action_groups_get(arm, old_name)
                        THEN [@[i] EXCEPT !.name = bone_group] ELSE @[i]],
                    !.armature.fcurves = [i \in 1..Len(@) |->
                        IF @[i].group = old_name
                        THEN [@[i] EXCEPT !.group = bone_group] ELSE @[i]]]
            ELSE group_renamed
        bones == get_bones_from_peg_bone_group(action_renamed.armature, bone_group)
        root_renamed ==
            host_bone_rename(action_renamed, bones.root,
                             Prefixed(PEGS_ROOT_BONE_PREFIX, bone_group))
    IN  IF arm.animation_data /\ action_groups_get(arm, old_name) = 0
        THEN Raised(group_renamed)
        ELSE IF bones.root = EmptyName THEN Raised(action_renamed)
        ELSE Finished(host_bone_rename(root_renamed, bones.offset,
                          Prefixed(PEGS_OFFSET_BONE_PREFIX, bone_group)))

ANIM_OT_peg_rename(ctx, name, new_name) ==
    IF bone_groups_get(ctx.armature, name) = 0 THEN Cancelled(ctx)
    ELSE IF new_name = EmptyName THEN Cancelled(ctx)
    ELSE peg_rename(ctx, name, new_name)

ANIM_OT_peg_insert_keyframe(ctx) ==
    LET arm == ctx.armature
        bone_group == bone_groups_active(arm)
        pose == get_pose_bones_from_peg_bone_group(arm, bone_group)
    IN  IF pose.root = EmptyName
        THEN Raised([ctx EXCEPT !.active_object = "ARMATURE"])
        ELSE Finished([ctx EXCEPT
                !.armature = peg_keyframe(arm, pose.root, pose.offset,
                                          bone_group, ctx.frame_current),
                !.active_object = "GPENCIL"])

\* auto_key: the parented layers have strokes (bbox) and auto keying is on
ANIM_OT_peg_parent_active_layer(ctx, peg_name, unparent, auto_key) ==
    LET arm == ctx.armature
        pose == get_pose_bones_from_peg_bone_group(arm, peg_name)
        parented ==
            [ctx EXCEPT !.layers[ctx.active_layer].parent_type = "BONE",
                        !.layers[ctx.active_layer].parent_bone = pose.offset]
        keyed == ANIM_OT_peg_insert_keyframe(parented)
    IN  IF unparent
        THEN Finished([ctx EXCEPT
                !.layers[ctx.active_layer].parent_bone = EmptyName,
                !.layers[ctx.active_layer].parent_type = "OBJECT"])
        ELSE IF bone_groups_get(arm, peg_name) = 0 THEN Cancelled(ctx)
        ELSE IF pose.offset = EmptyName THEN Raised(ctx)
        ELSE IF auto_key
        THEN (IF keyed.raised THEN keyed ELSE Finished(keyed.context))
        ELSE Finished(parented)

\* Whether the bone `name` is `ancestor` or below it
RECURSIVE IsBelow(_, _, _)
IsBelow(arm, name, ancestor) ==
    IF name = EmptyName \/ bone_index(arm, name) = 0 THEN FALSE
    ELSE IF name = ancestor THEN TRUE
    ELSE IsBelow(arm, arm.bones[bone_index(arm, name)].parent, ancestor)

\* bone.parent = parent_bone on edit bones: the host refuses a parent that is
\* the bone or below it
ANIM_OT_peg_parent_active_peg(ctx, peg_name, unparent) ==
    LET arm == ctx.armature
        active_root ==
            get_pose_bones_from_peg_bone_group(arm, bone_groups_active(arm)).root
        target_offset == get_pose_bones_from_peg_bone_group(arm, peg_name).offset
        parent_bone == IF unparent THEN EmptyName ELSE target_offset
        on_armature == [ctx EXCEPT !.active_object = "ARMATURE"]
    IN  IF ~unparent /\ bone_groups_get(arm, peg_name) = 0 THEN Cancelled(ctx)
        ELSE IF (~unparent /\ target_offset = EmptyName) \/ active_root = EmptyName
        THEN Raised(on_armature)
        ELSE Finished([ctx EXCEPT
                !.armature.bones[bone_index(arm, active_root)].parent =
                    IF IsBelow(arm, parent_bone, active_root) THEN @
                    ELSE parent_bone,
                !.active_object = "GPENCIL"])

ANIM_OT_peg_hide(ctx, name, hide) ==
    LET arm == ctx.armature
        bones == get_bones_from_peg_bone_group(arm, name)
    IN  IF bone_groups_get(arm, name) = 0 THEN Cancelled(ctx)
        ELSE IF bones.root = EmptyName THEN Raised(ctx)
        ELSE Finished([ctx EXCEPT
                !.armature.bones = [i \in 1..Len(@) |->
                    IF @[i].name \in {bones.root, bones.offset}
                    THEN [@[i] EXCEPT !.hide = hide] ELSE @[i]]])

ANIM_OT_peg_mute_action(ctx, name, unmute) ==
    LET arm == ctx.armature
        anim_data == action_groups_get(arm, name)
    IN  IF bone_groups_get(arm, name) = 0 THEN Cancelled(ctx)
        ELSE IF anim_data = 0 THEN Cancelled(ctx)
        ELSE Finished([ctx EXCEPT !.armature.groups[anim_data].mute = ~unmute])

\* PegsTransformWidgetGroup.initialize: whether the gizmos are hidden, and
\* what it returns
initialize(ctx) ==
    LET arm == ctx.armature
        bone_group == bone_groups_active(arm)
        bones == get_bones_from_peg_bone_group(arm, bone_group)
        root_group == action_groups_get(arm, bones.root)
    IN  IF bone_group = EmptyName THEN [hide |-> TRUE, ret |-> FALSE]
        ELSE IF bones.root = EmptyName
                \/ arm.bones[bone_index(arm, bones.root)].hide
        THEN [hide |-> TRUE, ret |-> FALSE]
        ELSE IF root_group # 0 /\ arm.groups[root_group].mute
        THEN [hide |-> TRUE, ret |-> FALSE]
        ELSE [hide |-> FALSE, ret |-> TRUE]

\* The frame numbers on which an f-curve of the action group has a keyframe
\* point
ActionFrames(arm, group_name) ==
    UNION {arm.fcurves[i].keyframe_points :
             i \in {j \in 1..Len(arm.fcurves) : arm.fcurves[j].group = group_name}}

\* ANIM_OT_peg_bake_active_layer.execute. fcurve.group is None for an f-curve
\* that is in no group, and fcurve.group.name then raises AttributeError;
\* gpl.frames[0] and frames[-1] raise IndexError on an empty list
ANIM_OT_peg_bake_active_layer(ctx, create_inbetweens, step_size) ==
    LET arm == ctx.armature
        gpl == ctx.layers[ctx.active_layer]
        bone_name == gpl.parent_bone
        unparented ==
            [ctx EXCEPT !.layers[ctx.active_layer].parent_bone = EmptyName,
                        !.layers[ctx.active_layer].parent_type = "OBJECT"]
        group_name == arm.bones[bone_index(arm, bone_name)].bone_group
        frames == SortedSeq(ActionFrames(arm, group_name))
        keys == gp_create_new_duplicated_frames(gpl.frames, frames)
        first == keys.frames[1]
        stop == Max(keys.frames[Len(keys.frames)], frames[Len(frames)]) + 1
        frame_range == {f \in first..(stop - 1) : (f - first) % step_size = 0}
        inbetweens == SortedSeq(frame_range \ Range(frames))
        breakdowns == gp_create_new_duplicated_frames(keys.frames, inbetweens)
        baked(gpl_frames) ==
            [unparented EXCEPT !.layers[ctx.active_layer].frames = gpl_frames]
    IN  IF bone_index(arm, bone_name) = 0 \/ ~arm.animation_data
        THEN Cancelled(ctx)
        ELSE IF \E i \in 1..Len(arm.fcurves) : arm.fcurves[i].group = EmptyName
        THEN Raised(unparented)
        ELSE IF keys.raised THEN Raised(unparented)
        ELSE IF ~create_inbetweens
        THEN Finished([baked(keys.frames) EXCEPT !.active_object = "GPENCIL"])
        ELSE IF Len(keys.frames) = 0 \/ Len(frames) = 0
        THEN Raised(baked(keys.frames))
        ELSE IF breakdowns.raised THEN Raised(baked(keys.frames))
        ELSE Finished([baked(breakdowns.frames) EXCEPT
                          !.active_object = "GPENCIL"])

\* The setter of Object.active_bone_group_index for the armature object
set_pose_active_bone_group_index_value(arm, value) ==
    IF ~(0 <= value /\ value < Len(arm.bone_groups)) THEN arm
    ELSE [arm EXCEPT !.active_index = value]

-----------------------------------------------------------------------------
(* Keyframes flipping: ANIM_OT_keyframes_flip, GPencilFlippingSettings and
   FlippingUndoHandler of animation/ops.py *)

\* list(keyframe_types.keys())
keyframe_types_list ==
    <<"KEYFRAME", "EXTREME", "BREAKDOWN", "JITTER", "MOVING_HOLD">>

\* The defaults of GPencilFlippingSettings
GPencilFlippingSettings ==
    [use_filter |-> TRUE, keyframe_types |-> [i \in 1..5 |-> TRUE],
     layer_mode |-> "ACTIVE", loop |-> TRUE, use_preview_range |-> TRUE]

\* keyframe_types_filter[keyframe_types_list.index(keyframe_type)]
TypeFilter(gpd, keyframe_type) ==
    gpd.flipping_settings.keyframe_types[
        CHOOSE i \in 1..Len(keyframe_types_list) :
            keyframe_types_list[i] = keyframe_type]

\* ANIM_OT_keyframes_flip.execute on the drawing gpd and the scene: the
\* current frame afterwards and the status code; raised when
\* gpd.layers.active is None and its frames are asked for (AttributeError)
ANIM_OT_keyframes_flip(gpd, scene, direction) ==
    LET impacted ==
            IF gpd.flipping_settings.layer_mode = "VISIBLE"
            THEN SelectSeq(gpd.layers, LAMBDA gpl : ~gpl.hide)
            ELSE <<gpd.layers[gpd.active]>>
        filtered ==
            SelectSeq(Concat([i \in 1..Len(impacted) |-> impacted[i].frames]),
                      LAMBDA kf : \/ ~gpd.flipping_settings.use_filter
                                  \/ TypeFilter(gpd, kf.keyframe_type))
        frames ==
            IF gpd.flipping_settings.use_preview_range /\ scene.use_preview_range
            THEN SelectSeq(filtered,
                           LAMBDA kf :
                               /\ scene.frame_preview_start <= kf.frame_number
                               /\ kf.frame_number <= scene.frame_preview_end)
            ELSE filtered
        key(kf) == IF direction = "LEFT" THEN 0 - kf.frame_number
                   ELSE kf.frame_number
        sorted_frames == SortedBy(frames, key)
        compare_func(x, y) == IF direction = "LEFT" THEN x < y ELSE x > y
        actframe == scene.frame_current
        found == {i \in 1..Len(sorted_frames) :
                    compare_func(sorted_frames[i].frame_number, actframe)}
        keyframe ==
            IF found # {}
            THEN sorted_frames[CHOOSE i \in found : \A j \in found : i <= j]
            ELSE sorted_frames[1]
    IN  IF gpd.flipping_settings.layer_mode # "VISIBLE" /\ gpd.active = 0
        THEN [frame_current |-> actframe, ret |-> "none", raised |-> TRUE]
        ELSE IF frames = <<>>
        THEN [frame_current |-> actframe, ret |-> "CANCELLED", raised |-> FALSE]
        ELSE IF found = {} /\ ~gpd.flipping_settings.loop
        THEN [frame_current |-> actframe, ret |-> "CANCELLED", raised |-> FALSE]
        ELSE [frame_current |-> keyframe.frame_number, ret |-> "FINISHED",
              raised |-> FALSE]

gpencil_edit_geo_modes == {"PAINT_GPENCIL", "SCULPT_GPENCIL", "EDIT_GPENCIL"}

\* FlippingUndoHandler.get_active_gpd: whether it returns the drawing;
\* getattr(obact, "mode") raises AttributeError without an active object,
\* whose mode is "None" here
get_active_gpd(w) == w.mode \in gpencil_edit_geo_modes

undo_stick_to_frame(w) == w.anim_flipping_undo_mode = "STICK_TO_FRAME"

\* The default of WindowManager.gp_last_edit_frame
gp_last_edit_frame_default == 0 - 1

\* FlippingUndoHandler.on_depsgraph_update_post; is_updated_geometry: an
\* update of the depsgraph is for the active drawing and has its geometry
\* updated
on_depsgraph_update_post(w, is_updated_geometry) ==
    IF ~undo_stick_to_frame(w) THEN [w |-> w, raised |-> FALSE]
    ELSE IF w.mode = "None" THEN [w |-> w, raised |-> TRUE]
    ELSE IF ~get_active_gpd(w) THEN [w |-> w, raised |-> FALSE]
    ELSE IF is_updated_geometry
    THEN [w |-> [w EXCEPT !.gp_last_edit_frame = w.frame_current],
          raised |-> FALSE]
    ELSE [w |-> w, raised |-> FALSE]

on_undo_post_KeepLastEdit(w) ==
    IF undo_stick_to_frame(w) /\ get_active_gpd(w)
       /\ w.frame_current # w.gp_last_edit_frame
    THEN [w |-> [w EXCEPT !.frame_current = w.gp_last_edit_frame],
          raised |-> FALSE]
    ELSE [w |-> w, raised |-> w.mode = "None" /\ undo_stick_to_frame(w)]

\* FlippingUndoHandler.on_undo_post
on_undo_post(w) ==
    IF ~undo_stick_to_frame(w) THEN [w |-> w, raised |-> FALSE]
    ELSE IF w.mode = "None" THEN [w |-> w, raised |-> TRUE]
    ELSE IF ~get_active_gpd(w) THEN [w |-> w, raised |-> FALSE]
    ELSE IF w.frame_current # w.gp_last_edit_frame
    THEN [w |-> [w EXCEPT !.frame_current = w.gp_last_edit_frame,
                          !.gp_last_edit_frame = w.frame_current],
          raised |-> FALSE]
    ELSE [w |-> w, raised |-> FALSE]

----------------------------------------------------------------------------
(* State machine of the animation functions *)

NoCall ==
    [op |-> "none", pre |-> <<>>, frame_start |-> 0, offset |-> 0,
     adjust_offset |-> FALSE, only_active_layer |-> FALSE,
     only_unlocked_layers |-> FALSE, only_selected_layers |-> FALSE,
     layer |-> 0, frame_numbers |-> <<>>, ret |-> <<>>, raised |-> FALSE]

\* The animation functions, the palettes and the layout functions are modelled
\* apart from one another
NoLayoutCall ==
    [op |-> "none", pre |-> <<>>, depth |-> 0, adjust_scale |-> FALSE, ret |-> <<>>]

LayIdle == obj = <<>> /\ scene_camera = <<>> /\ lpc = "idle" /\ llast = NoLayoutCall

\* A drawing without layers and without pegbar: gpd.pegbar_object and the
\* armature object, gpd.layers and the index of the active layer, the type of
\* context.active_object, scene.frame_current
NoContext ==
    [pegbar_object |-> FALSE, armature |-> NoArmature, layers |-> <<>>,
     active_layer |-> 0, active_object |-> "GPENCIL", frame_current |-> 0]

\* No peg operator has run. Else: the operator, its properties (flag is its
\* boolean property), the data before it, and what it returned
NoPegCall ==
    [op |-> "none", name |-> EmptyName, new_name |-> EmptyName, flag |-> FALSE,
     step_size |-> 0, pre |-> NoContext, ret |-> "none", raised |-> FALSE]

PegIdle == context = NoContext /\ plast = NoPegCall

\* No drawing for the flip operator: the layers (hide, and frame number and
\* keyframe type of each frame), the index of the active layer (0 for None)
\* and the flipping settings of the drawing; the frame and the preview range
\* of the scene
NoFlipData ==
    [gpd |-> [layers |-> <<>>, active |-> 0,
              flipping_settings |-> GPencilFlippingSettings],
     scene |-> [frame_current |-> 0, use_preview_range |-> FALSE,
                frame_preview_start |-> 0, frame_preview_end |-> 0]]

NoFlipCall ==
    [op |-> "none", direction |-> "none", pre |-> 0, ret |-> "none",
     raised |-> FALSE]

FlipIdle == flip = NoFlipData /\ flast = NoFlipCall

\* The undo handler is not looked at: the preference, the mode of the active
\* object, scene.frame_current and WindowManager.gp_last_edit_frame as the
\* add-on registers it
NoUndoData ==
    [anim_flipping_undo_mode |-> "DEFAULT", mode |-> "OBJECT",
     frame_current |-> 0, gp_last_edit_frame |-> gp_last_edit_frame_default]

NoHandlerCall ==
    [op |-> "none", pre |-> NoUndoData, is_updated_geometry |-> FALSE,
     raised |-> FALSE]

UndoIdle == undo = NoUndoData /\ ulast = NoHandlerCall

ExtIdle == PegIdle /\ FlipIdle /\ UndoIdle

\* No operator instance. Besides the properties and attributes of the
\* operator: orig, the layers when it was invoked; ret, what its last call
\* returned; updated, whether it has called execute; and when a session has ended, event, the event that ended it,
\* asked and moved, the offset of the operator and the displacement of its
\* first keyframe before that event
NoOperator ==
    [state |-> "none", offset |-> 0, only_active_layer |-> FALSE,
     only_selected_layers |-> FALSE, interactive |-> FALSE, keyframes |-> <<>>,
     first_keyframe_init_value |-> 0, orig |-> <<>>, ret |-> "none",
     updated |-> FALSE, event |-> "none", asked |-> 0, moved |-> 0]

OpIdle == frame_current = 0 /\ op = NoOperator

AnimIdle == layers = <<>> /\ active = 0 /\ pc = "idle" /\ last = NoCall /\ OpIdle

NoRefresh ==
    [op |-> "none", cleanup |-> FALSE, is_blend_data |-> FALSE,
     pre_mats |-> <<>>, pre_gps |-> <<>>, cleaned_gps |-> <<>>]

MatIdle ==
    /\ materials = <<>>
    /\ grease_pencils = <<>>
    /\ material_palettes = <<>>
    /\ data_ready = FALSE
    /\ mphase = "idle"
    /\ mlast = NoRefresh

\* A grease-pencil datablock as the host keeps it: the frames of a layer are
\* sorted by frame number and no two share a frame number
InitAnim ==
    /\ MatIdle
    /\ LayIdle
    /\ ExtIdle
    /\ OpIdle
    /\ layers \in [LayerIds -> [lock : BOOLEAN, select : BOOLEAN,
                                frames : AscendingSeqs(FrameNumbers, MaxKeys)]]
    /\ active \in 0..NumLayers
    /\ pc = "idle"
    /\ last = NoCall

GP == [layers |-> layers, active |-> active]

ShiftGpKeyframes(frame_start, offset, adjust_offset, a, u, s) ==
    /\ pc = "idle"
    /\ \E r \in {shift_gp_keyframes(GP, frame_start, offset, adjust_offset, a, u, s)} :
        /\ \A l \in LayerIds : \A k \in 1..Len(r.layers[l].frames) :
               r.layers[l].frames[k] <= MaxFrame
        /\ layers' = r.layers
        /\ last' = [NoCall EXCEPT !.op = "shift", !.pre = layers,
                                  !.frame_start = frame_start, !.offset = offset,
                                  !.adjust_offset = adjust_offset,
                                  !.only_active_layer = a,
                                  !.only_unlocked_layers = u,
                                  !.only_selected_layers = s,
                                  !.ret = r.ret]
        /\ pc' = "done"
        /\ UNCHANGED active

ComputeListOfFramesToDuplicate(l, frame_numbers) ==
    /\ pc = "idle"
    /\ \E r \in {gp_compute_list_of_frames_to_duplicate(layers[l].frames,
                                                         frame_numbers)} :
        /\ last' = [NoCall EXCEPT !.op = "compute", !.pre = layers, !.layer = l,
                                  !.frame_numbers = frame_numbers,
                                  !.ret = r.ret, !.raised = r.raised]
        /\ pc' = "done"
        /\ UNCHANGED <<layers, active>>

\* The caller takes the result; the next call can be made
Return ==
    /\ pc = "done"
    /\ pc' = "idle"
    /\ last' = NoCall
    /\ UNCHANGED <<layers, active>>

NextAnim ==
    \/ /\ pc = "idle"
       /\ \E frame_start \in 0..(MaxFrame - 1), offset \in Offsets,
             adjust_offset \in BOOLEAN, a \in BOOLEAN, u \in BOOLEAN, s \in BOOLEAN :
               ShiftGpKeyframes(frame_start, offset, adjust_offset, a, u, s)
    \/ Return

SpecAnim == InitAnim /\ [][NextAnim /\ UNCHANGED <<opVars, matVars, layVars, extVars>>]_vars

\* A datablock with one layer, as gp_compute_list_of_frames_to_duplicate looks
\* at one layer only
InitDup ==
    /\ MatIdle
    /\ LayIdle
    /\ ExtIdle
    /\ OpIdle
    /\ layers \in [{1} -> [lock : {FALSE}, select : {FALSE},
                           frames : AscendingSeqs(0..DupMaxFrame, DupMaxKeys)]]
    /\ active = 1
    /\ pc = "idle"
    /\ last = NoCall

\* The callers pass sorted lists of distinct frame numbers
DupFrameNumbers == AscendingSeqs(0..(DupMaxFrame + 1), DupMaxFrame + 2)

\* The sorted lists of distinct frame numbers within the frames modelled
KeysFrameNumbers == AscendingSeqs(FrameNumbers, MaxFrame + 1)

NextDup ==
    \/ \E frame_numbers \in DupFrameNumbers :
            ComputeListOfFramesToDuplicate(1, frame_numbers)
    \/ Return

SpecDup == InitDup /\ [][NextDup /\ UNCHANGED <<opVars, matVars, layVars, extVars>>]_vars

\* The keyframe operations of the add-on on one datablock, in any order:
\* shift_gp_keyframes, the keyframes shift operator (interactive or not), the
\* duration of the current keyframe, gp_create_new_duplicated_frames

\* The first layer is selected or not and active or not, the others are
\* neither
InitKeys ==
    /\ MatIdle
    /\ LayIdle
    /\ ExtIdle
    /\ layers \in [LayerIds -> [lock : BOOLEAN, select : BOOLEAN,
                                frames : AscendingSeqs(FrameNumbers, MaxKeys)]]
    /\ \A l \in LayerIds \ {1} : ~layers[l].select
    /\ active \in {0, 1}
    /\ pc = "idle"
    /\ last = NoCall
    /\ frame_current \in FrameNumbers
    /\ op = NoOperator

\* The frame numbers stay within the frames modelled
FramesWithinBound(ls) ==
    \A l \in LayerIds : \A k \in 1..Len(ls[l].frames) : ls[l].frames[k] <= MaxFrame

\* No operator is running: the operator is blocking
NotModal == op.state = "none"

KeysShiftGpKeyframes(frame_start, offset, adjust_offset, a, u, s) ==
    /\ NotModal
    /\ layers' = shift_gp_keyframes(GP, frame_start, offset, adjust_offset, a, u, s).layers
    /\ UNCHANGED op
    /\ UNCHANGED <<active, pc, last, frame_current>>

\* gp.current_keyframe_settings.duration = duration; gpf is the active frame
\* of the active layer as the host last evaluated it, 0 when None
SetCurrentKeyframeDuration(gpf, duration) ==
    /\ NotModal
    /\ IF active = 0 THEN gpf = 0 ELSE gpf \in 0..Len(layers[active].frames)
    /\ \E r \in {set_current_keyframe_duration(GP, gpf, frame_current, duration)} :
        /\ layers' = r.layers
        /\ frame_current' = r.frame_current
    /\ UNCHANGED op
    /\ UNCHANGED <<active, pc, last>>

GpCreateNewDuplicatedFrames(l, frame_numbers) ==
    /\ NotModal
    /\ layers' = [layers EXCEPT ![l].frames =
                      gp_create_new_duplicated_frames(@, frame_numbers).frames]
    /\ UNCHANGED op
    /\ UNCHANGED <<active, pc, last, frame_current>>

\* The user changes the current frame
HostFrameSet(frame) ==
    /\ NotModal
    /\ frame_current' = frame
    /\ UNCHANGED op
    /\ UNCHANGED <<layers, active, pc, last>>

\* bpy.ops.transform.keyframes_shift("INVOKE_DEFAULT", ...)
Invoke(offset, a, s, interactive) ==
    /\ NotModal
    /\ \E r \in {invoke([NoOperator EXCEPT !.offset = offset,
                                             !.only_active_layer = a,
                                             !.only_selected_layers = s,
                                             !.interactive = interactive],
                        GP, frame_current)} :
        /\ layers' = r.layers
        /\ op' = [r.self EXCEPT
                    !.state = IF r.ret = "RUNNING_MODAL" THEN "modal" ELSE "ended",
                    !.orig = layers, !.ret = r.ret, !.updated = r.executed]
    /\ UNCHANGED <<active, pc, last, frame_current>>

\* bpy.ops.transform.keyframes_shift("EXEC_DEFAULT", ...), and the redo panel
Execute(offset, a, s) ==
    /\ NotModal
    /\ \E r \in {execute([NoOperator EXCEPT !.offset = offset,
                                              !.only_active_layer = a,
                                              !.only_selected_layers = s],
                         GP, frame_current, FALSE)} :
        /\ layers' = r.layers
        /\ op' = [r.self EXCEPT !.state = "ended", !.orig = layers, !.ret = r.ret,
                                !.updated = r.self.keyframes # <<>>]
    /\ UNCHANGED <<active, pc, last, frame_current>>

\* An event reaches the modal handler of the running operator
Modal(event) ==
    /\ op.state = "modal"
    /\ \E r \in {modal(op, GP, frame_current, event)} :
        /\ layers' = r.layers
        /\ op' = IF r.ret = "RUNNING_MODAL"
                 THEN [r.self EXCEPT !.ret = r.ret,
                                     !.updated = @ \/ r.executed]
                 ELSE [r.self EXCEPT
                          !.state = "ended", !.ret = r.ret, !.event = event.type,
                          !.updated = @ \/ r.executed,
                          !.asked = op.offset,
                          !.moved = frame_number(layers, op.keyframes[1])
                                       - op.first_keyframe_init_value]
    /\ UNCHANGED <<active, pc, last, frame_current>>

\* The operator has returned FINISHED or CANCELLED; its instance is dropped
OperatorReturn ==
    /\ op.state = "ended"
    /\ op' = NoOperator
    /\ UNCHANGED <<layers, active, pc, last, frame_current>>

\* The offsets of the mouse: one frame further down than the offsets of the
\* calls, so that an offset is adjusted after the keyframes have moved
MouseOffsets == (0 - MaxOffset - 1)..MaxOffset

Events ==
    [type : {"RIGHTMOUSE", "ESC", "LEFTMOUSE"}, value : {"PRESS"}, offset : {0}]
        \cup [type : {"MOUSEMOVE"}, value : {"NOTHING"}, offset : MouseOffsets]

NextKeys ==
    \/ /\ NotModal
       /\ \E frame_start \in 0..(MaxFrame - 1), offset \in Offsets,
             adjust_offset \in BOOLEAN, a \in BOOLEAN, u \in BOOLEAN, s \in BOOLEAN :
               KeysShiftGpKeyframes(frame_start, offset, adjust_offset, a, u, s)
    \/ /\ NotModal
       /\ \E gpf \in 0..(MaxFrame + 1), duration \in 1..MaxFrame :
           SetCurrentKeyframeDuration(gpf, duration)
    \/ /\ NotModal
       /\ \E l \in LayerIds, frame_numbers \in KeysFrameNumbers :
           GpCreateNewDuplicatedFrames(l, frame_numbers)
    \/ \E frame \in FrameNumbers : HostFrameSet(frame)
    \/ /\ NotModal
       /\ \E offset \in Offsets, a \in BOOLEAN, s \in BOOLEAN : Execute(offset, a, s)
    \/ OperatorReturn

SpecKeys ==
    InitKeys /\ [][NextKeys /\ FramesWithinBound(layers')
                       /\ UNCHANGED <<matVars, layVars, extVars>>]_vars

\* The sessions of the keyframes shift operator on a datablock
NextShift ==
    \/ /\ NotModal
       /\ \E offset \in Offsets, a \in BOOLEAN, s \in BOOLEAN, interactive \in BOOLEAN :
           Invoke(offset, a, s, interactive)
    \/ \E event \in Events : Modal(event)
    \/ OperatorReturn

InitShift ==
    /\ MatIdle
    /\ LayIdle
    /\ ExtIdle
    /\ layers \in [LayerIds -> [lock : BOOLEAN, select : BOOLEAN,
                                frames : AscendingSeqs(FrameNumbers, MaxKeys)]]
    /\ active \in 0..NumLayers
    /\ pc = "idle"
    /\ last = NoCall
    /\ frame_current \in FrameNumbers
    /\ op = NoOperator

SpecShift ==
    InitShift /\ [][NextShift /\ FramesWithinBound(layers')
                        /\ UNCHANGED <<matVars, layVars, extVars>>]_vars

----------------------------------------------------------------------------
(* State machine of the material palettes *)

World == [mats |-> materials, gps |-> grease_pencils, pal |-> material_palettes]

DefaultSettings == [a \in Range(gp_material_comparison_attributes) |-> 0]

\* A material datablock; color is the value of grease_pencil.color
Material(is_gp, lib, color) ==
    [exists |-> TRUE, is_grease_pencil |-> is_gp, library |-> lib,
     grease_pencil |-> [DefaultSettings EXCEPT !["color"] = color]]

\* The materials of a file: at most MaxMat materials named in names
MaterialStates(names, kinds) ==
    LET used == {S \in SUBSET names : Cardinality(S) <= MaxMat}
    IN  {[n \in Range(MaterialNames) |-> IF n \in DOMAIN f THEN f[n] ELSE NoMaterial] :
            f \in UNION {[S -> kinds] : S \in used}}

\* A grease-pencil datablock of a file with the materials mats
GpStates(mats, palettes, slots) ==
    [material_palette_str : palettes,
     materials : UNION {[1..k -> {n \in Range(MaterialNames) : mats[n].exists}] :
                            k \in 0..slots}]

\* Palettes registry: every material is a local grease-pencil material or not a
\* grease-pencil material at all
PalNames == {Str_Default_m, Str_Empty_m, Str_A_m, Str_A_m_001, Str_B_m, Str_m}
PalKinds == {Material(TRUE, FALSE, 0), Material(FALSE, FALSE, 0)}
PalPalettes == {None, <<"A">>, <<"B">>}

\* Cleanup: copies of a material with and without palette prefix, with the
\* settings of the original or another color, local or linked from a library
CleanupNames == {Str_A_m, Str_A_m_001, Str_A_m_002, Str_m, Str_m_001}
CleanupKinds ==
    {Material(TRUE, FALSE, 0), Material(TRUE, FALSE, 1), Material(TRUE, TRUE, 0),
     Material(FALSE, FALSE, 0)}
CleanupPalettes == {None, <<"A">>}

\* The add-on is being registered: the registry is empty and bpy.data is not
\* accessible yet
InitPal ==
    /\ materials \in MaterialStates(PalNames, PalKinds)
    /\ grease_pencils \in [1..NumGP -> GpStates(materials, PalPalettes, PalMaxSlots)]
    /\ material_palettes = <<>>
    /\ data_ready = FALSE
    /\ mphase = "idle"
    /\ mlast = NoRefresh
    /\ AnimIdle
    /\ LayIdle
    /\ ExtIdle

\* The refresh operator runs on an open file: bpy.data is accessible
InitCleanup ==
    /\ materials \in MaterialStates(CleanupNames, CleanupKinds)
    /\ grease_pencils \in [1..NumGP -> GpStates(materials, CleanupPalettes, MaxSlots)]
    /\ material_palettes = <<>>
    /\ data_ready = TRUE
    /\ mphase = "idle"
    /\ mlast = NoRefresh
    /\ AnimIdle
    /\ LayIdle
    /\ ExtIdle

SetWorld(w) ==
    /\ materials' = w.mats
    /\ grease_pencils' = w.gps
    /\ material_palettes' = w.pal

\* The registration is over: bpy.data is the BlendData of the file
HostDataReady ==
    /\ mphase = "idle" /\ ~data_ready
    /\ data_ready' = TRUE
    /\ UNCHANGED <<materials, grease_pencils, material_palettes, mphase, mlast>>

\* refresh_palettes(cleanup_materials): with cleanup by the operator
\* MATERIAL_OT_palettes_refresh, without by initialize_palettes and the enum
\* items callback
RefreshPalettes(cleanup_materials) ==
    /\ mphase = "idle"
    /\ cleanup_materials => data_ready
    /\ \E w \in {refresh_palettes(World, data_ready, cleanup_materials)} :
        /\ SetWorld(w)
        /\ mlast' = [op |-> "refresh", cleanup |-> cleanup_materials,
                     is_blend_data |-> data_ready,
                     pre_mats |-> IF cleanup_materials THEN materials ELSE <<>>,
                     pre_gps |-> IF cleanup_materials THEN grease_pencils ELSE <<>>,
                     cleaned_gps |-> IF cleanup_materials
                                     THEN cleanup_duplicated_materials(World).gps
                                     ELSE <<>>]
    /\ UNCHANGED <<data_ready, mphase>>

\* load_pre handler
OnLoadPre ==
    /\ mphase = "idle" /\ data_ready
    /\ SetWorld(on_load_pre(World))
    /\ mphase' = "loading"
    /\ mlast' = [NoRefresh EXCEPT !.op = "load_pre", !.is_blend_data = TRUE]
    /\ UNCHANGED data_ready

\* The host frees the data of the file that was open
HostFreeMain ==
    /\ mphase = "loading"
    /\ materials' = [n \in Range(MaterialNames) |-> NoMaterial]
    /\ grease_pencils' = [g \in 1..NumGP |->
                             [material_palette_str |-> None, materials |-> <<>>]]
    /\ mphase' = "freed"
    /\ mlast' = NoRefresh
    /\ UNCHANGED <<material_palettes, data_ready>>

\* The host reads the data of the file being opened
HostReadFile(mats, gps) ==
    /\ mphase = "freed"
    /\ materials' = mats
    /\ grease_pencils' = gps
    /\ mphase' = "loaded"
    /\ UNCHANGED <<material_palettes, data_ready, mlast>>

\* load_post handler
OnLoadPost ==
    /\ mphase = "loaded"
    /\ SetWorld(on_load_post(World))
    /\ mphase' = "idle"
    /\ mlast' = [NoRefresh EXCEPT !.op = "load_post", !.is_blend_data = TRUE]
    /\ UNCHANGED data_ready

\* The data the host restores on undo or redo: the step undone or redone
\* created, removed or changed the material name
RestoredWorld(name, mat) ==
    [World EXCEPT
        !.mats = [materials EXCEPT ![name] = mat],
        !.gps = [g \in 1..Len(grease_pencils) |->
                    [grease_pencils[g] EXCEPT !.materials =
                        SelectSeq(@, LAMBDA n : n # name \/ mat.exists)]]]

\* undo_post and redo_post handlers, run once the host has restored the data
OnUndoRedo(name, mat) ==
    /\ mphase = "idle" /\ data_ready
    /\ materials[name] # mat
    /\ Cardinality({n \in Range(MaterialNames) :
                       RestoredWorld(name, mat).mats[n].exists}) <= MaxMat
    /\ SetWorld(on_undo_redo(RestoredWorld(name, mat)))
    /\ mlast' = [NoRefresh EXCEPT !.op = "undo_redo", !.is_blend_data = TRUE]
    /\ UNCHANGED <<data_ready, mphase>>

\* The slots of the datablocks stay within the bound of the palettes model
\* (a remap leaves the original in the slot of its copy, so that undoing the
\* removal of a copy and cleaning up again adds a slot each time)
SlotsWithinBound(gps) ==
    \A g \in 1..Len(gps) : Len(gps[g].materials) <= PalMaxSlots + 1

NextPal ==
    \/ HostDataReady
    \/ \E cleanup_materials \in BOOLEAN :
          RefreshPalettes(cleanup_materials) /\ SlotsWithinBound(grease_pencils')
    \/ OnLoadPre
    \/ HostFreeMain
    \/ /\ mphase = "freed"
       /\ \E mats \in MaterialStates(PalNames, PalKinds) :
             \E gps \in [1..NumGP -> GpStates(mats, PalPalettes, PalMaxSlots)] :
                 HostReadFile(mats, gps)
    \/ OnLoadPost
    \/ \E name \in PalNames, mat \in PalKinds \cup {NoMaterial} :
          OnUndoRedo(name, mat)

SpecPal == InitPal /\ [][NextPal /\ UNCHANGED <<animVars, opVars, layVars, extVars>>]_vars

\* MATERIAL_OT_palettes_refresh
NextCleanup == RefreshPalettes(TRUE)

SpecCleanup == InitCleanup /\ [][NextCleanup /\ UNCHANGED <<animVars, opVars, layVars, extVars>>]_vars

----------------------------------------------------------------------------
(* State machine of the palette property of the datablocks *)

\* The palette A: a material and its copy
AssignNames == {Str_A_m, Str_A_m_001}
AssignKinds == {Material(TRUE, FALSE, 0), Material(TRUE, FALSE, 1)}
\* The names assigned to the property: "F" is never the name of a palette
AssignPalettes == {DEFAULT_PALETTE_ID, <<"A">>, <<"F">>}

\* bpy.data.grease_pencils.new
NewGreasePencil == [material_palette_str |-> None, materials |-> <<>>]

\* The file is open, the datablocks are new and no palette was refreshed yet
InitAssign ==
    /\ materials \in MaterialStates(AssignNames, AssignKinds)
    /\ grease_pencils = [g \in 1..NumObjects |-> NewGreasePencil]
    /\ material_palettes = <<>>
    /\ data_ready = TRUE
    /\ mphase = "idle"
    /\ mlast = NoRefresh
    /\ AnimIdle
    /\ LayIdle
    /\ ExtIdle

\* No palette of the registry holds a removed material
RegistryAlive ==
    \A i \in 1..Len(material_palettes) :
        \A n \in Range(material_palettes[i].mats) : materials[n].exists

\* gp.material_palette = name
SetMaterialPalette(g, name) ==
    /\ mphase = "idle" /\ data_ready
    /\ RegistryAlive
    /\ \E r \in {material_palette_set(World, g, name)} :
        /\ SetWorld(r.w)
        /\ mlast' = [op |-> "set", g |-> g, name |-> name, raised |-> r.raised,
                     pre_gps |-> grease_pencils]
    /\ UNCHANGED <<data_ready, mphase>>

\* Reading gp.material_palette
GetMaterialPalette(g) ==
    /\ mphase = "idle" /\ data_ready
    /\ \E r \in {material_palette_get(World, g)} :
        /\ SetWorld(r.w)
        /\ mlast' = [op |-> "get", g |-> g, value |-> r.value,
                     pre_gps |-> grease_pencils, pre_pal |-> material_palettes]
    /\ UNCHANGED <<data_ready, mphase>>

\* bpy.data.materials.new / create_gpencil_data, or the copy of a material
HostNewMaterial(name, mat) ==
    /\ mphase = "idle" /\ data_ready
    /\ ~materials[name].exists
    /\ materials' = [materials EXCEPT ![name] = mat]
    /\ mlast' = NoRefresh
    /\ UNCHANGED <<grease_pencils, material_palettes, data_ready, mphase>>

\* bpy.data.materials.remove: the slots using the material are emptied
HostRemoveMaterial(name) ==
    /\ mphase = "idle" /\ data_ready
    /\ materials[name].exists
    /\ SetWorld([batch_remove(World, {name}) EXCEPT !.pal = material_palettes])
    /\ mlast' = NoRefresh
    /\ UNCHANGED <<data_ready, mphase>>

AssignSlotsWithinBound(gps) ==
    \A g \in 1..Len(gps) : Len(gps[g].materials) <= AssignMaxSlots

NextAssign ==
    \/ \E cleanup_materials \in BOOLEAN :
          RefreshPalettes(cleanup_materials) /\ AssignSlotsWithinBound(grease_pencils')
    \/ \E g \in 1..NumObjects, name \in AssignPalettes :
          SetMaterialPalette(g, name) /\ AssignSlotsWithinBound(grease_pencils')
    \/ \E g \in 1..NumObjects : GetMaterialPalette(g)
    \/ \E name \in AssignNames, mat \in AssignKinds : HostNewMaterial(name, mat)
    \/ \E name \in AssignNames : HostRemoveMaterial(name)

SpecAssign == InitAssign /\ [][NextAssign /\ UNCHANGED <<animVars, opVars, layVars, extVars>>]_vars

----------------------------------------------------------------------------
(* State machine of the layout functions *)

Coords == (0 - MaxCoord)..MaxCoord
Depths == (0 - 1)..MaxDepth

\* The cameras: at the origin looking down -Z, one unit above the origin looking down
\* -Z, and in front of the scene looking along +Y
Cameras ==
    {[translation |-> Vector(0, 0, 0), axis |-> <<1, 2, 3>>, sign |-> <<1, 1, 1>>],
     [translation |-> Vector(0, 0, 1), axis |-> <<1, 2, 3>>, sign |-> <<1, 1, 1>>],
     [translation |-> Vector(1, 0 - 2, 0), axis |-> <<1, 3, 2>>, sign |-> <<1, 1, 0 - 1>>]}

\* Scales of the objects: unit, not uniform, flipped along X
ObjectScales == {Vector(1, 1, 1), Vector(2, 1, 3), Vector(0 - 1, 1, 1)}

NoLock == <<FALSE, FALSE, FALSE>>
ObjectLocks ==
    {[lock_location |-> NoLock, lock_scale |-> NoLock],
     [lock_location |-> <<FALSE, TRUE, FALSE>>, lock_scale |-> NoLock],
     [lock_location |-> NoLock, lock_scale |-> <<FALSE, FALSE, TRUE>>]}

\* The objects: without parent or under a parent of scale 2
Objects ==
    {[location |-> Vector(x, y, z), rot |-> <<1, 1, 1>>, scale |-> sc,
      lock_location |-> lk.lock_location, lock_scale |-> lk.lock_scale,
      parent_scale |-> p, is_camera |-> FALSE] :
        x \in Coords, y \in Coords, z \in Coords, sc \in ObjectScales,
        lk \in ObjectLocks, p \in {1, 2}}

\* The camera object itself
CameraObject(cam) ==
    [location |-> cam.translation, rot |-> <<1, 1, 1>>, scale |-> Vector(1, 1, 1),
     lock_location |-> NoLock, lock_scale |-> NoLock,
     parent_scale |-> 1, is_camera |-> TRUE]

InitLayout ==
    /\ scene_camera \in Cameras \cup {NoCamera}
    /\ obj \in Objects \cup {CameraObject(cam) : cam \in {scene_camera} \ {NoCamera}}
    /\ lpc = "idle"
    /\ llast = NoLayoutCall
    /\ AnimIdle
    /\ MatIdle
    /\ ExtIdle

CameraViewDepthGet ==
    /\ lpc = "idle"
    /\ lpc' = "done"
    /\ llast' = [NoLayoutCall EXCEPT !.op = "get", !.pre = obj,
                     !.ret = camera_view_depth_get(scene_camera, obj)]
    /\ UNCHANGED <<obj, scene_camera>>

CameraViewDepthSet(value) ==
    /\ lpc = "idle"
    /\ lpc' = "done"
    /\ obj' = camera_view_depth_set(scene_camera, obj, value)
    /\ llast' = [NoLayoutCall EXCEPT !.op = "set", !.pre = obj, !.depth = value,
                     !.adjust_scale = TRUE]
    /\ UNCHANGED scene_camera

\* set_depth_from_camera(bpy.context.scene.camera.matrix_world, ob, depth, ...)
SetDepthFromCamera(depth, adjust_scale) ==
    /\ lpc = "idle"
    /\ scene_camera # NoCamera /\ ~obj.is_camera
    /\ lpc' = "done"
    /\ obj' = set_depth_from_camera(scene_camera, obj, depth, adjust_scale)
    /\ llast' = [NoLayoutCall EXCEPT !.op = "set_depth_from_camera", !.pre = obj,
                     !.depth = depth, !.adjust_scale = adjust_scale]
    /\ UNCHANGED scene_camera

NextLayout ==
    \/ CameraViewDepthGet
    \/ \E value \in Depths : CameraViewDepthSet(value)
    \/ \E depth \in Depths, adjust_scale \in BOOLEAN :
          SetDepthFromCamera(depth, adjust_scale)

SpecLayout == InitLayout /\ [][NextLayout /\ UNCHANGED <<animVars, opVars, matVars, extVars>>]_vars

-----------------------------------------------------------------------------
(* State machine of the stored palette: two palettes, "A" sorting before "B",
   whose materials come and go, so that the enum index of "B" changes *)

StoredNames == {Str_A_m, Str_B_m}
StoredKinds == {Material(TRUE, FALSE, 0)}
StoredPalettes == {DEFAULT_PALETTE_ID, <<"A">>, <<"B">>}

\* No call yet; set_keys is the history of the registry keys at the time the
\* property of each datablock was last set
NoStoredCall ==
    [op |-> "none", set_keys |-> [g \in 1..NumObjects |-> <<>>]]

InitStored ==
    /\ materials \in MaterialStates(StoredNames, StoredKinds)
    /\ grease_pencils = [g \in 1..NumObjects |-> NewGreasePencil]
    /\ material_palettes = <<>>
    /\ data_ready = TRUE
    /\ mphase = "idle"
    /\ mlast = NoStoredCall
    /\ AnimIdle
    /\ LayIdle
    /\ ExtIdle

\* gp.material_palette = name
StoredSet(g, name) ==
    /\ mphase = "idle" /\ data_ready
    /\ RegistryAlive
    /\ \E r \in {material_palette_set(World, g, name)} :
        /\ SetWorld(r.w)
        /\ mlast' = [op |-> "set", g |-> g, name |-> name, raised |-> r.raised,
                     pre_gps |-> grease_pencils,
                     set_keys |-> IF r.raised THEN mlast.set_keys
                                  ELSE [mlast.set_keys EXCEPT
                                            ![g] = PaletteKeys(r.w.pal)]]
    /\ UNCHANGED <<data_ready, mphase>>

\* Reading gp.material_palette
StoredGet(g) ==
    /\ mphase = "idle" /\ data_ready
    /\ \E r \in {material_palette_get(World, g)} :
        /\ SetWorld(r.w)
        /\ mlast' = [op |-> "get", g |-> g, value |-> r.value,
                     pre_gps |-> grease_pencils, pre_pal |-> material_palettes,
                     set_keys |-> mlast.set_keys]
    /\ UNCHANGED <<data_ready, mphase>>

\* refresh_palettes, from the handlers or from the operator
StoredRefresh(cleanup_materials) ==
    /\ mphase = "idle" /\ data_ready
    /\ SetWorld(refresh_palettes(World, data_ready, cleanup_materials))
    /\ mlast' = [op |-> "refresh", cleanup |-> cleanup_materials,
                 pre_gps |-> grease_pencils, pre_pal |-> material_palettes,
                 set_keys |-> mlast.set_keys]
    /\ UNCHANGED <<data_ready, mphase>>

\* bpy.data.materials.new
StoredNewMaterial(name, mat) ==
    /\ mphase = "idle" /\ data_ready
    /\ ~materials[name].exists
    /\ materials' = [materials EXCEPT ![name] = mat]
    /\ mlast' = [op |-> "host", set_keys |-> mlast.set_keys]
    /\ UNCHANGED <<grease_pencils, material_palettes, data_ready, mphase>>

\* bpy.data.materials.remove: the slots using the material are emptied
StoredRemoveMaterial(name) ==
    /\ mphase = "idle" /\ data_ready
    /\ materials[name].exists
    /\ SetWorld([batch_remove(World, {name}) EXCEPT !.pal = material_palettes])
    /\ mlast' = [op |-> "host", set_keys |-> mlast.set_keys]
    /\ UNCHANGED <<data_ready, mphase>>

NextStored ==
    \/ \E cleanup_materials \in BOOLEAN :
          StoredRefresh(cleanup_materials) /\ AssignSlotsWithinBound(grease_pencils')
    \/ \E g \in 1..NumObjects, name \in StoredPalettes :
          StoredSet(g, name) /\ AssignSlotsWithinBound(grease_pencils')
    \/ \E g \in 1..NumObjects : StoredGet(g)
    \/ \E name \in StoredNames, mat \in StoredKinds : StoredNewMaterial(name, mat)
    \/ \E name \in StoredNames : StoredRemoveMaterial(name)

SpecStored == InitStored /\ [][NextStored /\ UNCHANGED <<animVars, opVars, layVars, extVars>>]_vars

-----------------------------------------------------------------------------
(* State machine of the pegbar operators *)

\* A drawing with unparented layers and no pegbar yet
InitPegs ==
    /\ AnimIdle
    /\ MatIdle
    /\ LayIdle
    /\ FlipIdle
    /\ UndoIdle
    /\ context = [NoContext EXCEPT
                    !.layers = [l \in 1..NumPegLayers |->
                        [parent_bone |-> EmptyName, parent_type |-> "OBJECT",
                         frames |-> <<>>]],
                    !.active_layer = 1]
    /\ plast = NoPegCall

\* gpencil_pegbar_system_poll: the drawing is the active object and has a
\* pegbar
gpencil_pegbar_system_poll ==
    context.active_object = "GPENCIL" /\ context.pegbar_object

\* armature.bones.active: a bone of the pegbar is active once it has bones
BonesActive == Len(context.armature.bones) > 0

PegCall(name, r, args) ==
    /\ plast.op = "none"
    /\ context' = r.context
    /\ plast' = [args EXCEPT !.op = name, !.pre = context, !.ret = r.ret,
                             !.raised = r.raised]

\* The peg names an operator is given: the names of the pegs, and the names
\* a user types
PegBaseNames == {DefaultPegName, Name("", "Arm", 0)}
PegNameArgs == Range(context.armature.bone_groups) \union PegBaseNames

PegbarCreate ==
    /\ context.active_object = "GPENCIL"
    /\ PegCall("pegbar_create", ANIM_OT_pegbar_create(context), NoPegCall)

PegAdd(name) ==
    /\ gpencil_pegbar_system_poll
    /\ Len(context.armature.bone_groups) < MaxPegs
    /\ PegCall("peg_add", ANIM_OT_peg_add(context, name),
               [NoPegCall EXCEPT !.name = name])

PegRemove(name, iterator) ==
    /\ gpencil_pegbar_system_poll
    /\ BonesActive
    /\ PegCall("peg_remove", ANIM_OT_peg_remove(context, name, iterator),
               [NoPegCall EXCEPT !.name = name])

PegRename(name, new_name) ==
    /\ gpencil_pegbar_system_poll
    /\ PegCall("peg_rename", ANIM_OT_peg_rename(context, name, new_name),
               [NoPegCall EXCEPT !.name = name, !.new_name = new_name])

PegParentActiveLayer(peg_name, unparent, auto_key) ==
    /\ gpencil_pegbar_system_poll
    /\ BonesActive
    /\ PegCall("peg_parent_active_layer",
               ANIM_OT_peg_parent_active_layer(context, peg_name, unparent,
                                               auto_key),
               [NoPegCall EXCEPT !.name = peg_name, !.flag = unparent])

PegParentActivePeg(peg_name, unparent) ==
    /\ gpencil_pegbar_system_poll
    /\ PegCall("peg_parent_active_peg",
               ANIM_OT_peg_parent_active_peg(context, peg_name, unparent),
               [NoPegCall EXCEPT !.name = peg_name, !.flag = unparent])

PegHide(name, hide) ==
    /\ gpencil_pegbar_system_poll
    /\ PegCall("peg_hide", ANIM_OT_peg_hide(context, name, hide),
               [NoPegCall EXCEPT !.name = name, !.flag = hide])

PegMuteAction(name, unmute) ==
    /\ gpencil_pegbar_system_poll
    /\ context.armature.animation_data
    /\ PegCall("peg_mute_action", ANIM_OT_peg_mute_action(context, name, unmute),
               [NoPegCall EXCEPT !.name = name, !.flag = unmute])

PegInsertKeyframe ==
    /\ gpencil_pegbar_system_poll
    /\ context.armature.animation_data
    /\ BonesActive
    /\ PegCall("peg_insert_keyframe", ANIM_OT_peg_insert_keyframe(context),
               NoPegCall)

PegBakeActiveLayer(create_inbetweens, step_size) ==
    /\ gpencil_pegbar_system_poll
    /\ context.active_layer # 0
    /\ context.layers[context.active_layer].parent_bone # EmptyName
    /\ PegCall("peg_bake_active_layer",
               ANIM_OT_peg_bake_active_layer(context, create_inbetweens,
                                             step_size),
               [NoPegCall EXCEPT !.flag = create_inbetweens,
                                 !.step_size = step_size])

\* The host refreshes the gizmo group of the peg tool: flag is whether the
\* gizmos are hidden, ret what initialize returned
GizmoRefresh ==
    /\ plast.op = "none"
    /\ gpencil_pegbar_system_poll
    /\ context' = context
    /\ plast' = [NoPegCall EXCEPT
                    !.op = "initialize", !.pre = context,
                    !.flag = initialize(context).hide,
                    !.ret = IF initialize(context).ret THEN "True" ELSE "False"]

\* The user picks a peg in the list of the panel
HostSetActiveBoneGroupIndex(value) ==
    /\ plast.op = "none"
    /\ gpencil_pegbar_system_poll
    /\ context' = [context EXCEPT !.armature =
                      set_pose_active_bone_group_index_value(@, value)]
    /\ context' # context
    /\ UNCHANGED plast

\* The user picks a layer
HostSetActiveLayer(l) ==
    /\ plast.op = "none"
    /\ context.active_layer # l
    /\ context' = [context EXCEPT !.active_layer = l]
    /\ UNCHANGED plast

\* scene.frame_set by the user
HostPegFrameSet(f) ==
    /\ plast.op = "none"
    /\ context.frame_current # f
    /\ context' = [context EXCEPT !.frame_current = f]
    /\ UNCHANGED plast

\* The f-curves that are on a bone the armature does not have
DanglingFCurves(arm) ==
    {i \in 1..Len(arm.fcurves) : bone_index(arm, arm.fcurves[i].bone) = 0}

\* The caller takes the result; the next operator can run. The host is not
\* followed further once the iterator of peg_remove has read a freed
\* f-curve and left f-curves behind
PegReturn ==
    /\ plast.op # "none"
    /\ DanglingFCurves(context.armature) = {}
    /\ plast' = NoPegCall
    /\ UNCHANGED context

Iterators == {"intact", "ended", "raised"}

\* The operators that make, remove, rename and parent the pegs
NextPegs ==
    \/ PegbarCreate
    \/ \E name \in PegBaseNames : PegAdd(name)
    \/ \E name \in PegNameArgs, iterator \in Iterators : PegRemove(name, iterator)
    \/ \E name \in PegNameArgs, new_name \in PegBaseNames \union {EmptyName} :
            PegRename(name, new_name)
    \/ \E peg_name \in PegNameArgs, unparent \in BOOLEAN, auto_key \in BOOLEAN :
            PegParentActiveLayer(peg_name, unparent, auto_key)
    \/ \E peg_name \in PegNameArgs, unparent \in BOOLEAN :
            PegParentActivePeg(peg_name, unparent)
    \/ \E value \in 0..(MaxPegs - 1) : HostSetActiveBoneGroupIndex(value)
    \/ \E l \in 1..NumPegLayers : HostSetActiveLayer(l)
    \/ PegReturn

SpecPegs ==
    InitPegs /\ [][NextPegs /\ UNCHANGED <<animVars, opVars, matVars, layVars,
                                           flipVars, undoVars>>]_vars

\* A drawing with a pegbar of one peg and a layer that has frames: the peg
\* was added, and its f-curves keyed, on some frame
InitBake ==
    /\ AnimIdle
    /\ MatIdle
    /\ LayIdle
    /\ FlipIdle
    /\ UndoIdle
    /\ \E frames \in AscendingSeqs(0..BakeMaxFrame, BakeMaxKeys),
          current \in 0..BakeMaxFrame :
            context = ANIM_OT_pegbar_create(
                        [NoContext EXCEPT
                            !.layers = <<[parent_bone |-> EmptyName,
                                          parent_type |-> "OBJECT",
                                          frames |-> frames]>>,
                            !.active_layer = 1,
                            !.frame_current = current]).context
    /\ plast = NoPegCall

\* The user keys the peg on some frames, parents the layer and bakes it
NextBake ==
    \/ /\ Cardinality(ActionFrames(context.armature, DefaultPegName)) < BakeMaxKeys
       /\ PegInsertKeyframe
    \/ \E f \in 0..BakeMaxFrame : HostPegFrameSet(f)
    \/ \E unparent \in BOOLEAN : PegParentActiveLayer(DefaultPegName, unparent, FALSE)
    \/ \E create_inbetweens \in BOOLEAN, step_size \in 1..2 :
            PegBakeActiveLayer(create_inbetweens, step_size)
    \/ PegReturn

SpecBake ==
    InitBake /\ [][NextBake /\ UNCHANGED <<animVars, opVars, matVars, layVars,
                                           flipVars, undoVars>>]_vars

\* The pegbars of at most k pegs that pegbar_create and peg_add make
RECURSIVE Pegbars(_, _)
Pegbars(ctx, k) ==
    IF k = 0 THEN {}
    ELSE IF k = 1 THEN {ANIM_OT_pegbar_create(ctx).context}
    ELSE Pegbars(ctx, k - 1) \union
         {ANIM_OT_peg_add(c, name).context :
            c \in Pegbars(ctx, k - 1), name \in PegBaseNames}

\* A pegbar as it is, or with its first peg hidden, muted, or the parent of
\* the active layer
PegbarVariants(ctx) ==
    {ANIM_OT_peg_hide(
        ANIM_OT_peg_mute_action(
            ANIM_OT_peg_parent_active_layer(ctx, DefaultPegName, ~p, FALSE)
                .context,
            DefaultPegName, ~m).context,
        DefaultPegName, h).context : p \in BOOLEAN, m \in BOOLEAN, h \in BOOLEAN}

\* A drawing without pegbar, one whose pegbar has lost its peg, or one with a
\* pegbar of some pegs
InitPegOps ==
    /\ AnimIdle
    /\ MatIdle
    /\ LayIdle
    /\ FlipIdle
    /\ UndoIdle
    /\ \E drawing \in {[NoContext EXCEPT
                         !.layers = [l \in 1..NumPegLayers |->
                             [parent_bone |-> EmptyName,
                              parent_type |-> "OBJECT", frames |-> <<>>]],
                         !.active_layer = 1]} :
        context \in
            {drawing,
             ANIM_OT_peg_remove(ANIM_OT_pegbar_create(drawing).context,
                                DefaultPegName, "intact").context}
            \union UNION {PegbarVariants(c) : c \in Pegbars(drawing, MaxPegs)}
    /\ plast = NoPegCall

\* One operator is run on the drawing
NextPegOps ==
    \/ PegbarCreate
    \/ \E name \in PegNameArgs, iterator \in Iterators : PegRemove(name, iterator)
    \/ \E name \in PegNameArgs, new_name \in PegBaseNames \union {EmptyName} :
            PegRename(name, new_name)
    \/ \E peg_name \in PegNameArgs, unparent \in BOOLEAN, auto_key \in BOOLEAN :
            PegParentActiveLayer(peg_name, unparent, auto_key)
    \/ \E peg_name \in PegNameArgs, unparent \in BOOLEAN :
            PegParentActivePeg(peg_name, unparent)
    \/ \E name \in PegNameArgs, hide \in BOOLEAN : PegHide(name, hide)
    \/ \E name \in PegNameArgs, unmute \in BOOLEAN : PegMuteAction(name, unmute)

SpecPegOps ==
    InitPegOps /\ [][NextPegOps /\ UNCHANGED <<animVars, opVars, matVars,
                                               layVars, flipVars, undoVars>>]_vars

\* A drawing without pegbar; the pegs are added, hidden and muted, and the
\* host refreshes the gizmos
InitGizmo == InitPegs

NextGizmo ==
    \/ PegbarCreate
    \/ \E name \in PegBaseNames : PegAdd(name)
    \/ \E name \in PegNameArgs, hide \in BOOLEAN : PegHide(name, hide)
    \/ \E name \in PegNameArgs, unmute \in BOOLEAN : PegMuteAction(name, unmute)
    \/ GizmoRefresh
    \/ \E value \in 0..(MaxPegs - 1) : HostSetActiveBoneGroupIndex(value)
    \/ PegReturn

SpecGizmo ==
    InitGizmo /\ [][NextGizmo /\ UNCHANGED <<animVars, opVars, matVars, layVars,
                                             flipVars, undoVars>>]_vars

-----------------------------------------------------------------------------
(* State machine of the flip operator *)

FlipTypes == {"KEYFRAME", "BREAKDOWN"}

\* The frames a layer can have: at most n, sorted by frame number, of the
\* keyframe types in `types`
FlipFrames(n, types) ==
    UNION {{[i \in 1..Len(s) |-> [frame_number |-> s[i], keyframe_type |-> t[i]]] :
              t \in [1..Len(s) -> types]} :
           s \in AscendingSeqs(0..FlipMaxFrame, n)}

\* The drawings: one without layers, and those with two layers, the second
\* hidden or not
FlipLayers ==
    {[layers |-> <<>>, active |-> 0]} \union
    {[layers |-> << [hide |-> FALSE, frames |-> f1],
                    [hide |-> h2, frames |-> f2] >>, active |-> a] :
        f1 \in FlipFrames(FlipMaxKeys, FlipTypes),
        f2 \in FlipFrames(1, {"KEYFRAME"}), h2 \in BOOLEAN, a \in 1..2}

\* The settings: without the type filter, or with a filter on the types the
\* frames have
FlipTypeFilters ==
    {[use_filter |-> FALSE,
      keyframe_types |-> GPencilFlippingSettings.keyframe_types]} \union
    {[use_filter |-> TRUE,
      keyframe_types |-> [i \in 1..5 |-> IF i = 1 THEN k ELSE IF i = 3 THEN b
                                         ELSE TRUE]] :
        k \in BOOLEAN, b \in BOOLEAN}

InitFlip ==
    /\ AnimIdle
    /\ MatIdle
    /\ LayIdle
    /\ PegIdle
    /\ UndoIdle
    /\ \E d \in FlipLayers, f \in FlipTypeFilters,
          layer_mode \in {"ACTIVE", "VISIBLE"}, loop \in BOOLEAN,
          use_preview_range \in BOOLEAN, scene_preview \in BOOLEAN,
          current \in 0..FlipMaxFrame :
            flip = [gpd |-> [layers |-> d.layers, active |-> d.active,
                             flipping_settings |->
                                [use_filter |-> f.use_filter,
                                 keyframe_types |-> f.keyframe_types,
                                 layer_mode |-> layer_mode, loop |-> loop,
                                 use_preview_range |-> use_preview_range]],
                    scene |-> [frame_current |-> current,
                               use_preview_range |-> scene_preview,
                               frame_preview_start |-> 1,
                               frame_preview_end |-> FlipMaxFrame - 1]]
    /\ flast = NoFlipCall

KeyframesFlip(direction) ==
    \E r \in {ANIM_OT_keyframes_flip(flip.gpd, flip.scene, direction)} :
        /\ flip' = [flip EXCEPT !.scene.frame_current = r.frame_current]
        /\ flast' = [op |-> "keyframes_flip", direction |-> direction,
                     pre |-> flip.scene.frame_current, ret |-> r.ret,
                     raised |-> r.raised]

NextFlip == \E direction \in {"LEFT", "RIGHT"} : KeyframesFlip(direction)

SpecFlip ==
    InitFlip /\ [][NextFlip /\ UNCHANGED <<animVars, opVars, matVars, layVars,
                                           pegVars, undoVars>>]_vars

-----------------------------------------------------------------------------
(* State machine of the undo handler *)

\* The add-on has been registered: the preference and the window manager
\* property have their defaults
InitUndo ==
    /\ AnimIdle
    /\ MatIdle
    /\ LayIdle
    /\ PegIdle
    /\ FlipIdle
    /\ undo = NoUndoData
    /\ ulast = NoHandlerCall

HandlerCall(name, w, r, is_updated_geometry) ==
    /\ undo' = r.w
    /\ ulast' = [op |-> name, pre |-> w,
                 is_updated_geometry |-> is_updated_geometry,
                 raised |-> r.raised]

\* The user changes the preference
SetUndoMode(m) ==
    /\ undo.anim_flipping_undo_mode # m
    /\ undo' = [undo EXCEPT !.anim_flipping_undo_mode = m]
    /\ ulast' = NoHandlerCall

\* The user changes the mode of the active object, or leaves no object active
\* ("None")
HostModeSet(m) ==
    /\ undo.mode # m
    /\ undo' = [undo EXCEPT !.mode = m]
    /\ ulast' = NoHandlerCall

\* The host evaluates the depsgraph, after an edit of the strokes of the
\* active drawing (is_updated_geometry) or after something else, and calls
\* the handler
DepsgraphUpdatePost(is_updated_geometry) ==
    HandlerCall("on_depsgraph_update_post", undo,
                on_depsgraph_update_post(undo, is_updated_geometry),
                is_updated_geometry)

\* The user changes the frame; the host evaluates the depsgraph
HostUndoFrameSet(f) ==
    /\ undo.frame_current # f
    /\ HandlerCall("on_depsgraph_update_post",
                   [undo EXCEPT !.frame_current = f],
                   on_depsgraph_update_post([undo EXCEPT !.frame_current = f],
                                            FALSE), FALSE)

\* An undo of the host, which leaves the scene on frame f, and the handler
UndoPost(f) ==
    HandlerCall("on_undo_post", [undo EXCEPT !.frame_current = f],
                on_undo_post([undo EXCEPT !.frame_current = f]), FALSE)

UndoModes == {"None", "OBJECT"} \union gpencil_edit_geo_modes

NextUndo ==
    \/ \E m \in {"DEFAULT", "STICK_TO_FRAME"} : SetUndoMode(m)
    \/ \E m \in UndoModes : HostModeSet(m)
    \/ \E g \in BOOLEAN : DepsgraphUpdatePost(g)
    \/ \E f \in 0..UndoMaxFrame : HostUndoFrameSet(f)
    \/ \E f \in 0..UndoMaxFrame : UndoPost(f)

SpecUndo ==
    InitUndo /\ [][NextUndo /\ UNCHANGED <<animVars, opVars, matVars, layVars,
                                           pegVars, flipVars>>]_vars

----------------------------------------------------------------------------
(* Properties of shift_gp_keyframes *)

ShiftDone == pc = "done" /\ last.op = "shift"

\* The keyframes of the layers before the call
KeysOf(ls) == {<<l, k>> \in LayerIds \X (1..MaxKeys) : k <= Len(ls[l].frames)}

\* A layer the call considers: it satisfies every enabled condition
Considered(l) ==
    /\ (last.only_active_layer => l = active)
    /\ (last.only_unlocked_layers => ~layers[l].lock)
    /\ (last.only_selected_layers => layers[l].select)

\* The keyframes after frame_start on the considered layers, before the call
KeysAfterStart ==
    {kf \in KeysOf(last.pre) :
        Considered(kf[1]) /\ frame_number(last.pre, kf) > last.frame_start}

EarliestAfterStart ==
    CHOOSE n \in {frame_number(last.pre, kf) : kf \in KeysAfterStart} :
        \A kf \in KeysAfterStart : n <= frame_number(last.pre, kf)

OffsetApplicable ==
    /\ KeysAfterStart # {}
    /\ EarliestAfterStart + last.offset >= last.frame_start + 1

MovedKeys ==
    {kf \in KeysOf(last.pre) :
        frame_number(layers, kf) # frame_number(last.pre, kf)}

IsListOfSet(seq, S) == Range(seq) = S /\ Len(seq) = Cardinality(S)

\* C1: with an applicable non-zero offset, the keyframes at or before
\* frame_start keep their frame number, every keyframe after frame_start on the
\* considered layers moves by exactly offset, and the returned list is exactly
\* the set of the moved keyframes.
C1_ShiftMovesKeysAfterStart ==
    (ShiftDone /\ last.offset # 0 /\ OffsetApplicable) =>
        /\ \A kf \in KeysOf(last.pre) :
               frame_number(last.pre, kf) <= last.frame_start =>
                   frame_number(layers, kf) = frame_number(last.pre, kf)
        /\ \A kf \in KeysAfterStart :
               frame_number(layers, kf) = frame_number(last.pre, kf) + last.offset
        /\ IsListOfSet(last.ret, MovedKeys)

\* An applicable negative shift on a layer that also holds a key it leaves alone
C1_Witness ==
    /\ ShiftDone /\ last.offset < 0 /\ OffsetApplicable
    /\ \E kf \in KeysOf(last.pre), kg \in KeysAfterStart :
           kf[1] = kg[1] /\ frame_number(last.pre, kf) <= last.frame_start

\* C2: whatever the flags, only keyframes of layers satisfying all the enabled
\* conditions change; the keyframes of the other layers keep their frame
\* numbers, and with no such layer the call returns [] and changes nothing.
C2_ShiftOnlyConsideredLayers ==
    ShiftDone =>
        /\ \A l \in LayerIds : ~Considered(l) => layers[l] = last.pre[l]
        /\ \A kf \in Range(last.ret) : Considered(kf[1])
        /\ (\A l \in LayerIds : ~Considered(l)) =>
               (last.ret = <<>> /\ layers = last.pre)

\* Active and unlocked layers only: the active layer is locked, the other layer
\* is unlocked and holds keys after frame_start, and nothing is moved
C2_Witness ==
    /\ ShiftDone /\ last.offset = 1
    /\ last.only_active_layer /\ last.only_unlocked_layers
    /\ active \in LayerIds /\ layers[active].lock
    /\ \E kf \in KeysOf(last.pre) :
           /\ kf[1] # active /\ ~layers[kf[1]].lock
           /\ frame_number(last.pre, kf) > last.frame_start
           /\ frame_number(last.pre, kf) + 1 <= MaxFrame
    /\ \E kf \in KeysOf(last.pre) :
           kf[1] = active /\ frame_number(last.pre, kf) > last.frame_start
    /\ last.ret = <<>>

\* C3: without adjust_offset, an offset that is not applicable moves nothing:
\* the call returns [] and every keyframe keeps its frame number.
C3_ShiftAllOrNothing ==
    (/\ ShiftDone /\ ~last.adjust_offset
     /\ KeysAfterStart # {} /\ ~OffsetApplicable) =>
        (last.ret = <<>> /\ layers = last.pre)

\* The offset is not applicable although a later keyframe could have moved alone
C3_Witness ==
    /\ ShiftDone /\ ~last.adjust_offset
    /\ KeysAfterStart # {} /\ ~OffsetApplicable
    /\ \E kf \in KeysAfterStart :
           frame_number(last.pre, kf) + last.offset >= last.frame_start + 1
    /\ last.ret = <<>>

----------------------------------------------------------------------------
(* Properties of gp_compute_list_of_frames_to_duplicate *)

ComputeDone == pc = "done" /\ last.op = "compute"

LayerFrames == last.pre[last.layer].frames

\* The key visible at target: the one with the greatest frame number < target
IsVisibleAt(j, target) ==
    /\ j \in 1..Len(LayerFrames)
    /\ LayerFrames[j] < target
    /\ \A k \in 1..Len(LayerFrames) :
           LayerFrames[k] < target => LayerFrames[k] <= LayerFrames[j]

\* C4: for ascending targets with at least one target >= the first key, every
\* returned pair (keyframe, target) names the keyframe visible at target, and
\* the pairs are in ascending target order.
C4_DuplicatesVisibleKey ==
    (/\ ComputeDone /\ Len(LayerFrames) > 0
     /\ \E i \in 1..Len(last.frame_numbers) :
            last.frame_numbers[i] >= LayerFrames[1]) =>
        /\ ~last.raised
        /\ \A p \in 1..Len(last.ret) : IsVisibleAt(last.ret[p][1], last.ret[p][2])
        /\ \A p \in 1..(Len(last.ret) - 1) : last.ret[p][2] < last.ret[p + 1][2]

\* Targets before the first key, between two keys and after the last key
C4_Witness ==
    /\ ComputeDone /\ Len(LayerFrames) >= 2 /\ Len(last.ret) >= 2
    /\ \E p, q \in 1..Len(last.ret) : last.ret[p][1] = 1 /\ last.ret[q][1] = 2
    /\ Len(last.frame_numbers) > Len(last.ret) + 1
    /\ \E i \in 1..Len(last.frame_numbers) :
           last.frame_numbers[i] < LayerFrames[1]

\* C5: the call returns, and the targets of its result are exactly the targets
\* after the first key of the layer that are on no existing key (none for a
\* layer without keys).
C5_TargetsOfResult ==
    ComputeDone =>
        /\ ~last.raised
        /\ {last.ret[p][2] : p \in 1..Len(last.ret)} =
               {t \in Range(last.frame_numbers) :
                   /\ Len(LayerFrames) > 0
                   /\ t > LayerFrames[1]
                   /\ t \notin Range(LayerFrames)}

----------------------------------------------------------------------------
(* Properties of the palettes registry *)

RefreshDone == mlast.op = "refresh"

HasSeparator(name) == \E i \in 1..Len(name) : name[i] = PALETTE_NAME_SEPARATOR

\* p is the part of name before its first '/'
NamedInPalette(name, p) ==
    /\ Len(name) > Len(p)
    /\ SubSeq(name, 1, Len(p)) = p
    /\ name[Len(p) + 1] = PALETTE_NAME_SEPARATOR
    /\ \A i \in 1..Len(p) : p[i] # PALETTE_NAME_SEPARATOR

GreasePencilMaterials ==
    {n \in Range(MaterialNames) :
        materials[n].exists /\ materials[n].is_grease_pencil}

\* The parts before the first '/' of the names of the grease-pencil materials
Prefixes ==
    UNION {{SubSeq(n, 1, k) : k \in {j \in 0..(Len(n) - 1) :
                                        NamedInPalette(n, SubSeq(n, 1, j))}} :
           n \in GreasePencilMaterials}

NameIndex(n) == CHOOSE i \in 1..Len(MaterialNames) : MaterialNames[i] = n

\* bpy.data.materials lists a before b: the host sorts its datablocks by name,
\* the local ones before the linked ones
HostBefore(mats, a, b) ==
    \/ ~mats[a].library /\ mats[b].library
    \/ mats[a].library = mats[b].library /\ NameIndex(a) < NameIndex(b)

\* The non-default entries of the registry are the grouping by prefix of the
\* grease-pencil materials, for the prefixes given: one entry per prefix,
\* holding the materials of that prefix once each, in the order of the host
IsGroupingBy(prefixes) ==
    LET reg == material_palettes
        others == {i \in 1..Len(reg) : reg[i].name # DEFAULT_PALETTE_ID}
    IN  /\ \A i, j \in 1..Len(reg) : reg[i].name = reg[j].name => i = j
        /\ {reg[i].name : i \in others} = prefixes
        /\ \A i \in others :
            /\ Range(reg[i].mats) =
                   {n \in GreasePencilMaterials : NamedInPalette(n, reg[i].name)}
            /\ reg[i].mats # <<>>
            /\ \A a, b \in 1..Len(reg[i].mats) :
                   a < b => HostBefore(materials, reg[i].mats[a], reg[i].mats[b])
        /\ \A i, j \in others :
               i < j => HostBefore(materials, reg[i].mats[1], reg[j].mats[1])

\* No palette holds a material that is not a grease-pencil material or whose
\* name has no separator
OnlyPaletteNamedGpMaterials ==
    \A i \in 1..Len(material_palettes) :
        \A n \in Range(material_palettes[i].mats) :
            n \in GreasePencilMaterials /\ HasSeparator(n)

DefaultPaletteFirstAndEmpty ==
    /\ Len(material_palettes) >= 1
    /\ material_palettes[1] = [name |-> DEFAULT_PALETTE_ID, mats |-> <<>>]

\* C6 (as stated): after refresh_palettes, the non-default entries of the
\* registry are exactly the grouping of the existing grease-pencil materials by
\* the part of their name before the first '/'; a material that is not a
\* grease-pencil material or has no '/' in its name is in no palette; every
\* registered non-default palette holds at least one material.
C6_RegistryIsGroupingByPrefix ==
    RefreshDone =>
        /\ IsGroupingBy(Prefixes \ {DEFAULT_PALETTE_ID})
        /\ OnlyPaletteNamedGpMaterials

\* C6 (amended): after a refresh_palettes call made with host data
\* initialized, the non-default entries of the registry are exactly the
\* grouping of the existing grease-pencil materials by the non-empty part of
\* their name before the first '/'; a material that is not a grease-pencil
\* material, has no '/' in its name or has an empty part before the first '/'
\* is in no palette; every registered non-default palette holds at least one
\* material. After a call made before host data is initialized the registry
\* is empty.
C6_RegistryIsGroupingByNonEmptyPrefix ==
    RefreshDone =>
        IF mlast.is_blend_data
        THEN /\ IsGroupingBy(Prefixes \ {DEFAULT_PALETTE_ID, <<>>})
             /\ OnlyPaletteNamedGpMaterials
             /\ \A i \in 1..Len(material_palettes) :
                    \A n \in Range(material_palettes[i].mats) :
                        ~NamedInPalette(n, <<>>)
        ELSE material_palettes = <<>>

C6_Witness ==
    /\ RefreshDone /\ mlast.is_blend_data
    /\ Len(material_palettes) = 2
    /\ material_palettes[2] = [name |-> <<"A">>, mats |-> <<Str_A_m, Str_A_m_001>>]
    /\ materials[Str_B_m].exists /\ ~materials[Str_B_m].is_grease_pencil

\* C7: after every refresh_palettes call made with host data initialized, the
\* default palette '-' is in the registry, it is its first key, no other key
\* is '-', and its material list is empty even when a grease-pencil material
\* has the '-' prefix; when no grease-pencil material is named in another
\* palette the default palette is the only entry.
C7_DefaultPaletteFirstAndEmpty ==
    (RefreshDone /\ mlast.is_blend_data) =>
        /\ DefaultPaletteFirstAndEmpty
        /\ \A i \in 2..Len(material_palettes) :
               material_palettes[i].name # DEFAULT_PALETTE_ID
        /\ (Prefixes \subseteq {DEFAULT_PALETTE_ID, <<>>}) => Len(material_palettes) = 1

C7_Witness ==
    /\ RefreshDone /\ mlast.is_blend_data
    /\ Str_Default_m \in GreasePencilMaterials
    /\ Len(material_palettes) = 1

\* C8: after the load_post, undo_post or redo_post handler has run, the
\* registry is the one refresh_palettes builds from the materials existing at
\* that moment: the empty default palette, then the grouping of the
\* grease-pencil materials by palette; after the load_pre handler the registry
\* is empty.
C8_HandlersRebuildRegistry ==
    /\ mlast.op \in {"load_post", "undo_redo"} =>
        /\ DefaultPaletteFirstAndEmpty
        /\ IsGroupingBy(Prefixes \ {DEFAULT_PALETTE_ID, <<>>})
        /\ material_palettes = refresh_palettes(World, TRUE, FALSE).pal
    /\ mlast.op = "load_pre" => material_palettes = <<>>

C8_Witness ==
    /\ mlast.op = "undo_redo"
    /\ Len(material_palettes) = 3
    /\ material_palettes[2] = [name |-> <<"A">>, mats |-> <<Str_A_m, Str_A_m_001>>]

----------------------------------------------------------------------------
(* Properties of cleanup_duplicated_materials *)

CleanupDone == mlast.op = "refresh" /\ mlast.cleanup

\* The materials the cleanup removed
Removed ==
    {n \in Range(MaterialNames) : mlast.pre_mats[n].exists /\ ~materials[n].exists}

\* e is a grease-pencil material listed before n, with the short name of n and
\* the same value for every comparison attribute
EarlierIdentical(mats, e, n) ==
    /\ mats[e].exists /\ mats[e].is_grease_pencil
    /\ HostBefore(mats, e, n)
    /\ remove_auto_numbering_suffix(e) = remove_auto_numbering_suffix(n)
    /\ \A i \in 1..Len(gp_material_comparison_attributes) :
           mats[e].grease_pencil[gp_material_comparison_attributes[i]]
               = mats[n].grease_pencil[gp_material_comparison_attributes[i]]

\* The original of a duplicate: the first material it is identical to
Original(mats, n) ==
    CHOOSE e \in Range(MaterialNames) :
        /\ EarlierIdentical(mats, e, n)
        /\ \A f \in Range(MaterialNames) :
               EarlierIdentical(mats, f, n) => e = f \/ HostBefore(mats, e, f)

\* The slots (datablock, index) using one of the materials names
SlotsUsing(gps, names) ==
    UNION {{<<g, i>> : i \in {j \in 1..Len(gps[g].materials) :
                                  gps[g].materials[j] \in names}} :
           g \in 1..Len(gps)}

\* C9: refresh_palettes(cleanup_materials=True) removes a material if and only
\* if it is a local grease-pencil material with a palette prefix and an
\* earlier material with the same name without auto-numbering suffix has the
\* same value for every comparison attribute; the other materials are left as
\* they were.
C9_RemovedIffIdenticalCopy ==
    CleanupDone =>
        /\ \A n \in Range(MaterialNames) :
            n \in Removed <=>
                /\ mlast.pre_mats[n].exists
                /\ mlast.pre_mats[n].is_grease_pencil
                /\ ~mlast.pre_mats[n].library
                /\ \E k \in 1..(Len(n) - 1) : NamedInPalette(n, SubSeq(n, 1, k))
                /\ \E e \in Range(MaterialNames) :
                       EarlierIdentical(mlast.pre_mats, e, n)
        /\ \A n \in Range(MaterialNames) :
               n \notin Removed => materials[n] = mlast.pre_mats[n]

C9_Witness ==
    /\ CleanupDone
    /\ Str_A_m_002 \in Removed
    /\ materials[Str_A_m].exists
    /\ materials[Str_A_m_001].exists
    /\ materials[Str_A_m_001].is_grease_pencil
    /\ ~materials[Str_A_m_001].library
    /\ materials[Str_A_m_001].grease_pencil # materials[Str_A_m].grease_pencil

\* C10: once cleanup_duplicated_materials has run, every slot that used a
\* removed duplicate uses the surviving original of the duplicate, the other
\* slots are unchanged, the users of an original are its users before the
\* cleanup and the users of its removed duplicates, and no slot of a
\* datablock references a removed material, also at the end of the refresh.
C10_UsersRemappedToOriginal ==
    CleanupDone =>
        LET pre == mlast.pre_gps
            post == mlast.cleaned_gps
        IN  /\ Len(post) = Len(pre)
            /\ \A g \in 1..Len(pre) :
                /\ Len(post[g].materials) = Len(pre[g].materials)
                /\ \A i \in 1..Len(pre[g].materials) :
                    post[g].materials[i] =
                        IF pre[g].materials[i] \in Removed
                        THEN Original(mlast.pre_mats, pre[g].materials[i])
                        ELSE pre[g].materials[i]
            /\ \A d \in Removed : Original(mlast.pre_mats, d) \notin Removed
            /\ \A o \in Range(MaterialNames) \ Removed :
                   Users(post, o) =
                       Cardinality(SlotsUsing(pre,
                           {o} \cup {d \in Removed : Original(mlast.pre_mats, d) = o}))
            /\ SlotsUsing(post, Removed \cup {None}) = {}
            /\ \A g \in 1..Len(grease_pencils) :
                   \A i \in 1..Len(grease_pencils[g].materials) :
                       /\ grease_pencils[g].materials[i] # None
                       /\ materials[grease_pencils[g].materials[i]].exists

C10_Witness ==
    /\ CleanupDone
    /\ \E d \in Removed :
        /\ Users(mlast.pre_gps, d) >= 1
        /\ Users(mlast.pre_gps, Original(mlast.pre_mats, d)) >= 1
        /\ Users(mlast.cleaned_gps, Original(mlast.pre_mats, d)) = 2

----------------------------------------------------------------------------
(* Properties of the palette property of the datablocks *)

\* The palette a datablock uses: the stored one when registered, else the
\* default one
ActivePalette(gp) ==
    IF gp.material_palette_str \in Range(PaletteKeys(material_palettes))
    THEN gp.material_palette_str
    ELSE DEFAULT_PALETTE_ID

\* C11: after refresh_palettes(cleanup_materials=True), the materials of every
\* grease-pencil datablock contain every material registered in its active
\* palette, and no material the cleanup removed (no slot names a material
\* that does not exist).
C11_RefreshAssignsActivePalette ==
    CleanupDone =>
        \A g \in 1..Len(grease_pencils) :
            /\ Range(PaletteMaterials(material_palettes,
                                      ActivePalette(grease_pencils[g])))
                   \subseteq Range(grease_pencils[g].materials)
            /\ Range(grease_pencils[g].materials) \cap Removed = {}
            /\ \A n \in Range(grease_pencils[g].materials) :
                   n # None => materials[n].exists

C11_Witness ==
    /\ CleanupDone
    /\ Len(grease_pencils) = 2
    /\ \A g \in 1..Len(grease_pencils) :
        /\ grease_pencils[g].material_palette_str = <<"A">>
        /\ mlast.pre_gps[g].materials = <<Str_A_m>>
        /\ grease_pencils[g].materials = <<Str_A_m, Str_A_m_001>>

SetDone == mlast.op = "set"

GetDone == mlast.op = "get"

\* C13: when the palette stored on a datablock is not registered (its
\* materials were deleted before the last refresh), reading the property
\* yields DEFAULT_PALETTE_ID and stores the default on the datablock; the
\* refresh with cleanup does the same for every datablock.
C13_FallbackToDefaultPalette ==
    /\ GetDone =>
        LET pre == mlast.pre_gps[mlast.g]
        IN  (/\ pre.material_palette_str # None
             /\ pre.material_palette_str \notin Range(PaletteKeys(mlast.pre_pal)))
            => /\ mlast.value = DEFAULT_PALETTE_ID
               /\ grease_pencils[mlast.g].material_palette_str = DEFAULT_PALETTE_ID
               /\ grease_pencils[mlast.g].materials = pre.materials
    /\ CleanupDone =>
        \A g \in 1..Len(grease_pencils) :
            LET pre == mlast.pre_gps[g]
            IN  (/\ pre.material_palette_str # None
                 /\ pre.material_palette_str
                        \notin Range(PaletteKeys(material_palettes)))
                => grease_pencils[g].material_palette_str = DEFAULT_PALETTE_ID

C13_Witness ==
    /\ GetDone
    /\ mlast.pre_gps[mlast.g].material_palette_str = <<"A">>
    /\ mlast.pre_pal = <<[name |-> DEFAULT_PALETTE_ID, mats |-> <<>>]>>
    /\ mlast.pre_gps[mlast.g].materials = <<None>>
    /\ mlast.value = DEFAULT_PALETTE_ID

\* C14: setting the property of a datablock to a name that is not a
\* registered palette raises TypeError and leaves the stored palette and the
\* materials of every datablock as they were; a set that does not raise was
\* given a registered palette.
C14_InvalidPaletteRaises ==
    SetDone =>
        /\ mlast.name \notin Range(PaletteKeys(material_palettes))
               => mlast.raised /\ grease_pencils = mlast.pre_gps
        /\ mlast.raised => mlast.name \notin Range(PaletteKeys(material_palettes))

C14_Witness ==
    /\ SetDone /\ mlast.raised
    /\ mlast.name = <<"F">>
    /\ Len(material_palettes) = 2
    /\ grease_pencils[mlast.g].material_palette_str = <<"A">>
    /\ grease_pencils[mlast.g].materials # <<>>

----------------------------------------------------------------------------
(* Properties of the layout functions *)

LayoutDone(name) == lpc = "done" /\ llast.op = name

IsLocked(ob) == \E i \in 1..3 : ob.lock_scale[i] \/ ob.lock_location[i]

\* The call of llast had an active camera and an object that is not the
\* camera and has no locked channel
Transformable == scene_camera # NoCamera /\ ~llast.pre.is_camera /\ ~IsLocked(llast.pre)

\* The depth of the object before the call of llast
DepthBefore == get_depth_from_view(scene_camera, llast.pre)

\* C15: after camera_view_depth_set(ob, d) with an active camera, ob not the
\* camera and no locked channel, camera_view_depth_get(ob) is d and the scale
\* of the object is its scale before times d / current depth (the ratio is
\* taken where the current depth is not 0)
C15_DepthSetScalesAboutCamera ==
    (LayoutDone("set") /\ Transformable) =>
        /\ camera_view_depth_get(scene_camera, obj) = RatInt(llast.depth)
        /\ DepthBefore # RatInt(0) =>
              \A i \in 1..3 :
                 obj.scale[i] = RatMul(RatDiv(RatInt(llast.depth), DepthBefore),
                                       llast.pre.scale[i])

\* C16: set_depth_from_camera with adjust_scale=False on an object without
\* locked channel puts the object at the requested depth and leaves its scale
\* as it was before the call
C16_NoScaleAdjustmentKeepsScale ==
    (LayoutDone("set_depth_from_camera") /\ ~llast.adjust_scale /\ Transformable) =>
        /\ camera_view_depth_get(scene_camera, obj) = RatInt(llast.depth)
        /\ obj.scale = llast.pre.scale

\* C17: without active camera camera_view_depth_get returns NaN and
\* camera_view_depth_set leaves the object as it was; set_depth_from_camera
\* leaves an object with a locked location or scale channel as it was
C17_NoCameraOrLockedIsNoOp ==
    /\ (LayoutDone("get") /\ scene_camera = NoCamera) => llast.ret = nan
    /\ (LayoutDone("set") /\ scene_camera = NoCamera) => obj = llast.pre
    /\ (LayoutDone("set_depth_from_camera") /\ IsLocked(llast.pre)) => obj = llast.pre

\* set_depth_from_camera was called on an object with a locked scale channel
\* for a depth that is not the depth of the object
C17_Witness ==
    /\ LayoutDone("set_depth_from_camera")
    /\ llast.pre.lock_scale[3]
    /\ llast.adjust_scale
    /\ DepthBefore # RatInt(llast.depth)
    /\ obj = llast.pre

----------------------------------------------------------------------------
(* Properties of the keyframe operations *)

\* The frame numbers of the layer are pairwise distinct
DistinctFrames(frames) ==
    \A k1, k2 \in 1..Len(frames) : k1 # k2 => frames[k1] # frames[k2]

\* The keyframes of the layer are in the order of their frame numbers; the
\* host lists them in that order at the start and no operation of the add-on
\* reorders the list, so that a keyframe that overtakes another shows here
OrderKept(frames) ==
    \A k1, k2 \in 1..Len(frames) : k1 < k2 => frames[k1] < frames[k2]

Displacement(kf) == frame_number(layers, kf) - frame_number(op.orig, kf)


\* The operator was invoked, tracks keyframes and has run or runs
SessionStarted == op.state \in {"modal", "ended"} /\ op.keyframes # <<>>

\* C19: during a session of the keyframes shift operator, after every update
\* with operator offset o, each tracked keyframe is displaced from its
\* original frame number by max(o, (frame_current + 1) - original first
\* keyframe) and is after the current frame; the keyframes of locked layers
\* and those at or before the current frame have not moved
C19_OffsetAdjustedToFrameMin ==
    SessionStarted =>
        /\ \A i \in 1..Len(op.keyframes) :
              /\ op.updated =>
                    Displacement(op.keyframes[i])
                        = Max(op.offset,
                              (frame_current + 1) - op.first_keyframe_init_value)
              /\ frame_number(layers, op.keyframes[i]) > frame_current
        /\ \A l \in LayerIds : \A k \in 1..Len(layers[l].frames) :
              (layers[l].lock \/ frame_number(op.orig, <<l, k>>) <= frame_current)
                  => Displacement(<<l, k>>) = 0

\* An update asked for an offset below the minimum: the keyframes went down
\* by one frame only, next to a locked layer with keyframes
C19_Witness ==
    /\ op.state = "modal"
    /\ op.offset = 0 - MaxOffset - 1
    /\ Displacement(op.keyframes[1]) = 0 - 1
    /\ \E l \in LayerIds : layers[l].lock /\ layers[l].frames # <<>>

\* The session ended by the event of one of the types
SessionEndedBy(types) ==
    op.state = "ended" /\ op.interactive /\ op.event \in types

\* C20: when an interactive session of the keyframes shift operator is
\* cancelled (RIGHTMOUSE or ESC, or a confirmation with offset 0), whatever
\* the mouse moves before, every tracked keyframe is back on the frame number
\* it had at invoke and the operator returns CANCELLED
C20_CancelRestoresKeyframes ==
    (\/ SessionEndedBy({"RIGHTMOUSE", "ESC"})
     \/ (SessionEndedBy({"LEFTMOUSE"}) /\ op.asked = 0)) =>
        /\ op.ret = "CANCELLED"
        /\ layers = op.orig

\* ESC after a move whose offset was adjusted: the keyframes had moved by one
\* frame for an offset further down
C20_Witness ==
    /\ SessionEndedBy({"ESC"})
    /\ op.asked = 0 - MaxOffset - 1
    /\ op.moved = 0 - 1
    /\ op.ret = "CANCELLED"
    /\ layers = op.orig

-----------------------------------------------------------------------------
(* Robustness of gp_compute_list_of_frames_to_duplicate *)

\* C21: for every layer and every ascending list of targets, the empty list and
\* a list of targets before the first key included, the call returns a list
\* and raises nothing.
C21_ComputeReturnsWithoutRaising ==
    ComputeDone => ~last.raised

-----------------------------------------------------------------------------
(* Properties of the pegbar operators *)

PegDone(name) == plast.op = name

\* The layer ANIM_OT_peg_bake_active_layer was run on, and the action group
\* of the peg the layer was parented to
BakedLayer == plast.pre.active_layer

BakedGroup ==
    plast.pre.armature.bones[
        bone_index(plast.pre.armature,
                   plast.pre.layers[BakedLayer].parent_bone)].bone_group

\* C22: once the bake operator has finished, the baked layer has a keyframe on
\* every frame on which an f-curve of the group of the peg has a keyframe
\* point, the layer has no parent bone, and the current frame and the active
\* object are as before.
C22_BakeKeysEveryActionFrame ==
    (PegDone("peg_bake_active_layer") /\ plast.ret = "FINISHED") =>
        /\ ActionFrames(plast.pre.armature, BakedGroup)
               \subseteq Range(context.layers[BakedLayer].frames)
        /\ context.layers[BakedLayer].parent_bone = EmptyName
        /\ context.layers[BakedLayer].parent_type = "OBJECT"
        /\ context.frame_current = plast.pre.frame_current
        /\ context.active_object = plast.pre.active_object

-----------------------------------------------------------------------------
(* Properties of the flip operator and of the undo handler *)

FlipDone == flast.op = "keyframes_flip"

\* The frame numbers of the matching keyframes: those of the active layer, or
\* of the layers that are not hidden in VISIBLE mode, that pass the filter on
\* the keyframe type and the filter on the preview range
FlipMatching ==
    LET gpd == flip.gpd
        st == gpd.flipping_settings
        of == IF st.layer_mode = "VISIBLE"
              THEN {l \in 1..Len(gpd.layers) : ~gpd.layers[l].hide}
              ELSE {gpd.active} \ {0}
        passes(kf) ==
            /\ st.use_filter => TypeFilter(gpd, kf.keyframe_type)
            /\ (st.use_preview_range /\ flip.scene.use_preview_range) =>
                  /\ flip.scene.frame_preview_start <= kf.frame_number
                  /\ kf.frame_number <= flip.scene.frame_preview_end
    IN  UNION {{kf.frame_number :
                  kf \in {f \in Range(gpd.layers[l].frames) : passes(f)}} :
               l \in of}

SetMin(S) == CHOOSE x \in S : \A y \in S : x <= y
SetMax(S) == CHOOSE x \in S : \A y \in S : x >= y

\* C23: the flip sets the current frame to the nearest matching keyframe
\* strictly after it (RIGHT) or before it (LEFT); without one in that
\* direction it loops to the first (RIGHT) or the last (LEFT) matching
\* keyframe when loop is on; otherwise, and when no keyframe matches, it
\* returns CANCELLED and the current frame stays.
C23_FlipGoesToNearestMatching ==
    FlipDone =>
        LET right == flast.direction = "RIGHT"
            side == {n \in FlipMatching :
                        IF right THEN n > flast.pre ELSE n < flast.pre}
            nearest(S) == IF right THEN SetMin(S) ELSE SetMax(S)
        IN  /\ ~flast.raised
            /\ IF side # {}
               THEN /\ flast.ret = "FINISHED"
                    /\ flip.scene.frame_current = nearest(side)
               ELSE IF flip.gpd.flipping_settings.loop /\ FlipMatching # {}
               THEN /\ flast.ret = "FINISHED"
                    /\ flip.scene.frame_current = nearest(FlipMatching)
               ELSE /\ flast.ret = "CANCELLED"
                    /\ flip.scene.frame_current = flast.pre


StoredGetDone == mlast.op = "get"

\* The position of a palette in a list of registry keys (0 when absent)
KeyIndex(keys, name) ==
    IF name \in Range(keys) THEN CHOOSE i \in 1..Len(keys) : keys[i] = name ELSE 0

\* C24: the palette of a datablock is stored by name: a palette that is still
\* registered stays the stored one through every step that is not an
\* assignment of the property, and reading the property returns it, whatever
\* its position in the registry has become
C24_StoredPaletteReadsBack ==
    /\ [](StoredGetDone =>
            LET P == mlast.pre_gps[mlast.g].material_palette_str
            IN  (P # None /\ P \in Range(PaletteKeys(material_palettes))) =>
                    /\ mlast.value = P
                    /\ grease_pencils[mlast.g].material_palette_str = P)
    /\ [][\A g \in 1..NumObjects :
            LET P == grease_pencils[g].material_palette_str
            IN  (/\ P # None
                 /\ ~(mlast'.op = "set" /\ mlast'.g = g)
                 /\ P \in Range(PaletteKeys(material_palettes'))) =>
                    grease_pencils'[g].material_palette_str = P]_vars

\* "B" is read back although it was set when it was the third item of the
\* registry and is now the second
C24_Witness ==
    /\ StoredGetDone
    /\ mlast.value = <<"B">>
    /\ mlast.pre_gps[mlast.g].material_palette_str = <<"B">>
    /\ KeyIndex(mlast.set_keys[mlast.g], <<"B">>) = 3
    /\ KeyIndex(PaletteKeys(material_palettes), <<"B">>) = 2


HandlerDone(name) == ulast.op = name

\* The handlers act: STICK_TO_FRAME and a drawing in a mode that edits strokes
StickInGeoMode(w) ==
    w.anim_flipping_undo_mode = "STICK_TO_FRAME" /\ w.mode \in gpencil_edit_geo_modes

\* C25: in STICK_TO_FRAME mode and in a paint, sculpt or edit mode, a depsgraph
\* update for edited strokes stores the current frame as the last edit frame,
\* and an undo that leaves the scene on a frame S other than the stored frame
\* E makes E the current frame and S the stored one; in DEFAULT mode or in
\* another object mode neither handler changes the frame or the stored value
C25_UndoSticksToLastEditFrame ==
    /\ (HandlerDone("on_depsgraph_update_post") /\ StickInGeoMode(ulast.pre)
        /\ ulast.is_updated_geometry) =>
            /\ undo.gp_last_edit_frame = ulast.pre.frame_current
            /\ undo.frame_current = ulast.pre.frame_current
    /\ (HandlerDone("on_undo_post") /\ StickInGeoMode(ulast.pre)
        /\ ulast.pre.frame_current # ulast.pre.gp_last_edit_frame) =>
            /\ undo.frame_current = ulast.pre.gp_last_edit_frame
            /\ undo.gp_last_edit_frame = ulast.pre.frame_current
    /\ ((HandlerDone("on_depsgraph_update_post") \/ HandlerDone("on_undo_post"))
        /\ ~StickInGeoMode(ulast.pre)) =>
            undo = ulast.pre

\* An undo left the scene on another frame than the one of a recorded edit
C25_Witness ==
    /\ HandlerDone("on_undo_post")
    /\ StickInGeoMode(ulast.pre)
    /\ ulast.pre.gp_last_edit_frame # gp_last_edit_frame_default
    /\ ulast.pre.frame_current # ulast.pre.gp_last_edit_frame
    /\ undo.frame_current = ulast.pre.gp_last_edit_frame
    /\ undo.gp_last_edit_frame = ulast.pre.frame_current

\* C26: on_undo_post leaves the current frame unchanged while no edit has
\* been recorded (gp_last_edit_frame holds its default)
C26_UndoKeepsFrameWithoutEdit ==
    (HandlerDone("on_undo_post")
     /\ ulast.pre.gp_last_edit_frame = gp_last_edit_frame_default) =>
        undo.frame_current = ulast.pre.frame_current


\* The bones of the peg an operator was called for, before the call
CalledPegBones == get_bones_from_peg_bone_group(plast.pre.armature, plast.name)

NamedPegOperators == {"peg_remove", "peg_rename", "peg_hide", "peg_mute_action"}
ParentingPegOperators == {"peg_parent_active_layer", "peg_parent_active_peg"}

\* No bone group had the name the operator was called with
NoSuchPeg == bone_groups_get(plast.pre.armature, plast.name) = 0

\* The calls the operators refuse
RefusedPegCall ==
    \/ plast.op \in NamedPegOperators /\ NoSuchPeg
    \/ plast.op \in ParentingPegOperators /\ ~plast.flag /\ NoSuchPeg
    \/ plast.op = "peg_rename" /\ plast.new_name = EmptyName
    \/ plast.op = "pegbar_create" /\ plast.pre.pegbar_object

\* C28: a peg operator called with a name no bone group has (the parenting
\* operators when not unparenting), peg_rename called with an empty new name,
\* and pegbar_create on a drawing that has a pegbar, return CANCELLED and
\* leave bones, bone groups, layers, action and active object as they were
C28_RefusedCallChangesNothing ==
    RefusedPegCall =>
        /\ plast.ret = "CANCELLED"
        /\ ~plast.raised
        /\ context = plast.pre

\* peg_rename is called with an unknown name on a pegbar that has pegs
C28_Witness ==
    /\ PegDone("peg_rename")
    /\ NoSuchPeg
    /\ plast.new_name # EmptyName
    /\ Len(plast.pre.armature.bone_groups) >= 1
    /\ plast.ret = "CANCELLED"
    /\ context = plast.pre


\* The action group named after the active peg is muted
ActivePegMuted(arm) ==
    /\ bone_groups_active(arm) # EmptyName
    /\ action_groups_get(arm, bone_groups_active(arm)) # 0
    /\ arm.groups[action_groups_get(arm, bone_groups_active(arm))].mute

\* C29: PegsTransformWidgetGroup.initialize hides the gizmos and returns False
\* whenever the action of the active peg is muted
C29_MutedPegHidesGizmos ==
    (PegDone("initialize") /\ ActivePegMuted(plast.pre.armature)) =>
        /\ plast.flag
        /\ plast.ret = "False"

============================================================================
